---- MODULE Spec2Model ----
(***************************************************************************)
(* Model of the JoinGo AI summary server: the in-memory StorageService,    *)
(* the Socket.IO event handlers of server.ts, the asynchronous             *)
(* transcription and summarization calls they await, and the prompt the    *)
(* summarizer builds from a meeting.                                       *)
(*                                                                         *)
(* Node.js runs each handler to its next await without interruption, so    *)
(* one action is one such run: the part of a handler before an await, or   *)
(* the continuation that runs when the awaited call settles.               *)
(* Timestamps are milliseconds since the epoch (ISO strings in the code).  *)
(***************************************************************************)
EXTENDS Integers, Sequences, FiniteSets, TLC

\* ---------------------------------------------------------------- bounds
MaxEvents == 3          \* socket events received from clients
MaxAudio == 2           \* of them, audio-chunk events
MaxEnds == 2            \* of them, generate-summary events
MaxQuick == 1           \* of them, get-quick-summary events

\* ------------------------------------------------------------- constants
MsPerMinute == 60000    \* Math.floor(diffMs / 60000)
MinutesPerHour == 60    \* diffMins < 60, diffMins / 60, diffMins % 60
MsPerDay == 86400000    \* toLocaleTimeString keeps the time of day only

Keys == {"m1"}
Sockets == {"s1", "s2"}
Users == {"u1", "u2"}

\* The user behind a connection when it sends audio, chat or leave events
\* (a join may name any user), and the client's clock when it sends its
\* n-th event.
userOf(c) == IF c = "s1" THEN "u1" ELSE "u2"

\* The connection that asks for the summaries: the handler is the same for
\* every socket, and the other socket stands for the clients that do not ask.
Organizer == "s1"
clientTime(n) == 1000 + n

userNameOf(u) == IF u = "u1" THEN "Ana" ELSE "Luis"
userEmailOf(u) == IF u = "u1" THEN "ana@x" ELSE "luis@x"

NoTime == -1            \* endTime is undefined

\* TranscriptionService before any call of transcribe: the clock reading of
\* the last call (Date.now()), the files of tempDir, the calls made.
NoCalls == [ms |-> 0, files |-> <<>>, calls |-> <<>>]

VARIABLES
  meetings,     \* StorageService.meetings: a Map from meetingId to MeetingData
  rooms,        \* Socket.IO rooms: meetingId -> set of sockets joined to it
  connected,    \* sockets whose connection is open
  chunks,       \* audio-chunk handler runs: event id -> closure and status
  jobs,         \* generate-summary handler runs: event id -> closure and pc
  mailLog,      \* what the generate-summary handler last logged about the email
  quicks,       \* get-quick-summary handler runs awaiting the model: event id -> closure
  timers,       \* pending setTimeout callbacks that clear a meeting
  sent,         \* every emit of the server, in order
  events,       \* every socket event (or direct call, or HTTP request) received, in order
  epoch,        \* meetingId -> number of events received when it was last cleared
  reply,        \* what the last direct call of the store or HTTP request returned
  tmp           \* TranscriptionService: its temporary files and its calls of transcribe

vars == <<meetings, rooms, connected, chunks, jobs, mailLog, quicks, timers,
          sent, events, epoch, reply, tmp>>

\* ------------------------------------------------------- StorageService
has(ms, k) == k \in DOMAIN ms

set(ms, k, v) == [x \in DOMAIN ms \cup {k} |-> IF x = k THEN v ELSE ms[x]]

NewMeeting(t) ==
  [participants |-> <<>>, transcriptions |-> <<>>, chatMessages |-> <<>>,
   audioChunks |-> <<>>, startTime |-> t, endTime |-> NoTime]

\* initMeeting without the test for an existing meeting.
initMeetingResets(ms, k, t) == set(ms, k, NewMeeting(t))

initMeeting(ms, k, t) ==
  IF ~has(ms, k) THEN set(ms, k, NewMeeting(t)) ELSE ms

\* addParticipant without the test for an existing id.
addParticipantDup(ms, k, p, t) ==
  LET m1 == initMeeting(ms, k, t)
  IN  set(m1, k, [m1[k] EXCEPT !.participants = Append(@, p)])

addParticipant(ms, k, p, t) ==
  LET m1 == initMeeting(ms, k, t)
      exists == \E i \in 1..Len(m1[k].participants) : m1[k].participants[i].id = p.id
  IN  IF ~exists
      THEN set(m1, k, [m1[k] EXCEPT !.participants = Append(@, p)])
      ELSE m1

\* addAudioChunk dropping the chunk when the meeting is missing.
addAudioChunkStrict(ms, k, a, t) ==
  IF has(ms, k) THEN set(ms, k, [ms[k] EXCEPT !.audioChunks = Append(@, a)]) ELSE ms

addAudioChunk(ms, k, a, t) ==
  LET m1 == initMeeting(ms, k, t)
  IN  set(m1, k, [m1[k] EXCEPT !.audioChunks = Append(@, a)])

\* addTranscription keeping the log in the order of the capture timestamps.
addTranscriptionSorted(ms, k, tr, t) ==
  LET m1 == initMeeting(ms, k, t)
      earlier == SelectSeq(m1[k].transcriptions, LAMBDA e : e.timestamp <= tr.timestamp)
      later == SelectSeq(m1[k].transcriptions, LAMBDA e : e.timestamp > tr.timestamp)
  IN  set(m1, k, [m1[k] EXCEPT !.transcriptions = earlier \o <<tr>> \o later])

\* addTranscription with unshift in place of push.
addTranscriptionFront(ms, k, tr, t) ==
  LET m1 == initMeeting(ms, k, t)
  IN  set(m1, k, [m1[k] EXCEPT !.transcriptions = <<tr>> \o @])

addTranscription(ms, k, tr, t) ==
  LET m1 == initMeeting(ms, k, t)
  IN  set(m1, k, [m1[k] EXCEPT !.transcriptions = Append(@, tr)])

\* addChatMessage writing back a log that holds the new message only.
addChatMessageLost(ms, k, c, t) ==
  LET m1 == initMeeting(ms, k, t)
  IN  set(m1, k, [m1[k] EXCEPT !.chatMessages = <<c>>])

addChatMessage(ms, k, c, t) ==
  LET m1 == initMeeting(ms, k, t)
  IN  set(m1, k, [m1[k] EXCEPT !.chatMessages = Append(@, c)])

\* endMeeting creating the meeting when it is missing, as the add methods do.
endMeetingLazy(ms, k, t) ==
  LET m1 == initMeeting(ms, k, t)
  IN  set(m1, k, [m1[k] EXCEPT !.endTime = t])

endMeeting(ms, k, t) ==
  IF has(ms, k) THEN set(ms, k, [ms[k] EXCEPT !.endTime = t]) ELSE ms

\* clearMeeting emptying the whole Map (this.meetings.clear()).
clearMeetingAll(ms, k) == <<>>

\* clearMeeting deleting nothing.
clearMeetingKeeps(ms, k) == ms

clearMeeting(ms, k) == [x \in DOMAIN ms \ {k} |-> ms[x]]

\* clearMeeting returning true whether or not the key was present.
clearMeetingReturnsTrue(ms, k) == TRUE

\* What clearMeeting returns: the result of Map.delete, true when the key
\* was present.
clearMeetingReturns(ms, k) == has(ms, k)

\* undefined and null are the empty tuple, a value v is the tuple <<v>>.
getMeetingData(ms, k) == IF has(ms, k) THEN <<ms[k]>> ELSE <<>>

\* The values of the Map, each with its meetingId (their order is left out).
getAllMeetings(ms) == {[meetingId |-> k, data |-> ms[k]] : k \in DOMAIN ms}

\* getMeetingStats computing the duration without the test for an endTime.
getMeetingStatsUntested(ms, k) ==
  IF ~has(ms, k) THEN <<>>
  ELSE << [meetingId |-> k,
           participantCount |-> Len(ms[k].participants),
           transcriptionCount |-> Len(ms[k].transcriptions),
           chatMessageCount |-> Len(ms[k].chatMessages),
           audioChunkCount |-> Len(ms[k].audioChunks),
           duration |-> <<ms[k].endTime - ms[k].startTime>>] >>

getMeetingStats(ms, k) ==
  IF ~has(ms, k) THEN <<>>
  ELSE << [meetingId |-> k,
           participantCount |-> Len(ms[k].participants),
           transcriptionCount |-> Len(ms[k].transcriptions),
           chatMessageCount |-> Len(ms[k].chatMessages),
           audioChunkCount |-> Len(ms[k].audioChunks),
           duration |-> IF ms[k].endTime # NoTime
                        THEN <<ms[k].endTime - ms[k].startTime>>
                        ELSE <<>>] >>

\* -------------------------------------------------------- PromptTemplates
toLocaleTimeString(ts) == ts % MsPerDay

calculateDuration(startTime, endTime) ==
  IF endTime = NoTime THEN <<"Duracion no disponible">>
  ELSE LET diffMins == (endTime - startTime) \div MsPerMinute
       IN  IF diffMins < MinutesPerHour
           THEN <<diffMins, "minutos">>
           ELSE <<diffMins \div MinutesPerHour, "h", diffMins % MinutesPerHour, "min">>

promptDuration(startTime, endTime) ==
  IF endTime = NoTime THEN <<"En curso">>
  ELSE LET diffMins == (endTime - startTime) \div MsPerMinute
       IN  IF diffMins < MinutesPerHour
           THEN <<diffMins, "minutos">>
           ELSE <<diffMins \div MinutesPerHour, "h", diffMins % MinutesPerHour, "min">>

generateSummaryPrompt(k, data) ==
  [meetingId |-> k,
   duration |-> promptDuration(data.startTime, data.endTime),
   participantsList |-> [i \in 1..Len(data.participants) |-> data.participants[i].name],
   transcriptions |-> [i \in 1..Len(data.transcriptions) |->
       [time |-> toLocaleTimeString(data.transcriptions[i].timestamp),
        userName |-> data.transcriptions[i].userName,
        text |-> data.transcriptions[i].text]],
   chatMessages |-> [i \in 1..Len(data.chatMessages) |->
       [time |-> toLocaleTimeString(data.chatMessages[i].timestamp),
        userName |-> data.chatMessages[i].userName,
        message |-> data.chatMessages[i].message]]]

\* ------------------------------------------------------ SummarizerService
\* The model's answers: a JSON document, or text that JSON.parse rejects.
\* A text is its length in characters and, for JSON, the parsed object.
JsonResponse ==
  [json |-> TRUE, len |-> 120,
   parsed |-> [summary |-> <<"resumen">>,
               participants |-> <<[name |-> "Ana", contributions |-> "aportes"]>>,
               topics |-> <<"tema">>, tasks |-> <<>>, nextSteps |-> <<"paso">>]]
TextResponse == [json |-> FALSE, len |-> 600, parsed |-> <<>>]
Responses == {JsonResponse, TextResponse}

SubstringLimit == 500   \* responseText.substring(0, 500)
EllipsisLen == 3        \* + '...'

\* parseClaudeResponse whose fallback keeps the whole text, without substring.
parseClaudeResponseUncut(responseText, meetingData) ==
  IF responseText.json
  THEN [summary |-> responseText.parsed.summary,
        participants |-> responseText.parsed.participants,
        topics |-> responseText.parsed.topics,
        tasks |-> responseText.parsed.tasks,
        nextSteps |-> responseText.parsed.nextSteps,
        meetingDuration |-> calculateDuration(meetingData.startTime, meetingData.endTime)]
  ELSE [summary |-> <<"raw", responseText.len + EllipsisLen>>,
        participants |-> [i \in 1..Len(meetingData.participants) |->
            [name |-> meetingData.participants[i].name,
             contributions |-> "Participo en la reunion"]],
        topics |-> <<"Informacion de la reunion procesada">>,
        tasks |-> <<>>,
        nextSteps |-> <<"Revisar el contenido de la reunion">>,
        meetingDuration |-> calculateDuration(meetingData.startTime, meetingData.endTime)]

\* parseClaudeResponse whose fallback leaves the participant list empty.
parseClaudeResponseNoNames(responseText, meetingData) ==
  IF responseText.json
  THEN [summary |-> responseText.parsed.summary,
        participants |-> responseText.parsed.participants,
        topics |-> responseText.parsed.topics,
        tasks |-> responseText.parsed.tasks,
        nextSteps |-> responseText.parsed.nextSteps,
        meetingDuration |-> calculateDuration(meetingData.startTime, meetingData.endTime)]
  ELSE [summary |-> <<"raw", (IF responseText.len < SubstringLimit
                              THEN responseText.len ELSE SubstringLimit) + EllipsisLen>>,
        participants |-> <<>>,
        topics |-> <<"Informacion de la reunion procesada">>,
        tasks |-> <<>>,
        nextSteps |-> <<"Revisar el contenido de la reunion">>,
        meetingDuration |-> calculateDuration(meetingData.startTime, meetingData.endTime)]

\* The Summary built from the answer; its generatedAt stamp is left out.
parseClaudeResponse(responseText, meetingData) ==
  IF responseText.json
  THEN [summary |-> responseText.parsed.summary,
        participants |-> responseText.parsed.participants,
        topics |-> responseText.parsed.topics,
        tasks |-> responseText.parsed.tasks,
        nextSteps |-> responseText.parsed.nextSteps,
        meetingDuration |-> calculateDuration(meetingData.startTime, meetingData.endTime)]
  ELSE [summary |-> <<"raw", (IF responseText.len < SubstringLimit
                              THEN responseText.len ELSE SubstringLimit) + EllipsisLen>>,
        participants |-> [i \in 1..Len(meetingData.participants) |->
            [name |-> meetingData.participants[i].name,
             contributions |-> "Participo en la reunion"]],
        topics |-> <<"Informacion de la reunion procesada">>,
        tasks |-> <<>>,
        nextSteps |-> <<"Revisar el contenido de la reunion">>,
        meetingDuration |-> calculateDuration(meetingData.startTime, meetingData.endTime)]

\* ------------------------------------------------- TranscriptionService
\* Whisper's text for an audio buffer; distinct buffers give distinct texts.
Whisper(data) == <<"texto", data>>

\* ------------------------------------------------------------- Socket.IO
\* io.to(room): every socket in the room.  socket.to(room): all but the sender.
\* socket.emit: the socket itself, nothing once its connection is closed.
ToRoom(rm, k) == rm[k]
ToOthers(rm, c, k) == rm[k] \ {c}
ToSocket(c) == IF c \in connected THEN {c} ELSE {}

Emit(ev, kind, k, to, body) ==
  [event |-> ev, kind |-> kind, meetingId |-> k, to |-> to, body |-> body]

Received(type, c, k, u, ts) ==
  [type |-> type, socket |-> c, meetingId |-> k, userId |-> u, timestamp |-> ts]

NextId == Len(events) + 1

\* Connections are named in the order in which they first send an event.
Active(c) ==
  /\ c \in connected
  /\ c = "s1" \/ \E i \in 1..Len(events) : events[i].socket = "s1"

\* The server clock (new Date()): client events reach the server a minute
\* apart, and whatever runs between two of them reads the same time.
now == Len(events) * MsPerMinute
arrival == NextId * MsPerMinute

Count(type) == Cardinality({i \in 1..Len(events) : events[i].type = type})

\* The MeetingData object a running generate-summary handler holds: the one
\* in the store, or the object as it was when clearMeeting dropped it.
Deref(job) == IF job.held # <<>> THEN job.held[1] ELSE meetings[job.meetingId]

Init ==
  /\ meetings = <<>>
  /\ rooms = [k \in Keys |-> {}]
  /\ connected = Sockets
  /\ chunks = <<>>
  /\ jobs = <<>>
  /\ mailLog = "none"
  /\ quicks = <<>>
  /\ timers = {}
  /\ sent = <<>>
  /\ events = <<>>
  /\ epoch = [k \in Keys |-> 0]
  /\ reply = [call |-> "none"]
  /\ tmp = NoCalls

\* ------------------------------------------------- socket.on('join-meeting')
\* The handler announcing the join with io.to(meetingId) instead of
\* socket.to(meetingId).
JoinMeetingToAll(c, k, u) ==
  /\ Active(c)
  /\ Len(events) < MaxEvents
  /\ rooms' = [rooms EXCEPT ![k] = @ \cup {c}]
  /\ meetings' = addParticipant(meetings, k,
                   [id |-> u, name |-> userNameOf(u), email |-> userEmailOf(u)], arrival)
  /\ sent' = sent \o
       << Emit("participant-joined", "others", k, ToRoom(rooms', k),
               [userId |-> u, userName |-> userNameOf(u), timestamp |-> arrival]),
          Emit("joined-meeting", "socket", k, ToSocket(c), [success |-> TRUE]) >>
  /\ events' = Append(events, Received("join-meeting", c, k, u, 0))
  /\ UNCHANGED <<tmp, reply, mailLog, quicks, connected, chunks, jobs, timers, epoch>>

JoinMeeting(c, k, u) ==
  /\ Active(c)
  /\ Len(events) < MaxEvents
  /\ rooms' = [rooms EXCEPT ![k] = @ \cup {c}]
  /\ meetings' = addParticipant(meetings, k,
                   [id |-> u, name |-> userNameOf(u), email |-> userEmailOf(u)], arrival)
  /\ sent' = sent \o
       << Emit("participant-joined", "others", k, ToOthers(rooms', c, k),
               [userId |-> u, userName |-> userNameOf(u), timestamp |-> arrival]),
          Emit("joined-meeting", "socket", k, ToSocket(c), [success |-> TRUE]) >>
  /\ events' = Append(events, Received("join-meeting", c, k, u, 0))
  /\ UNCHANGED <<tmp, reply, mailLog, quicks, connected, chunks, jobs, timers, epoch>>

\* -------------------------------------------------- socket.on('audio-chunk')
\* Up to the await of transcriptionService.transcribe.
AudioChunk(c, k) ==
  /\ Active(c)
  /\ Len(events) < MaxEvents
  /\ Count("audio-chunk") < MaxAudio
  /\ meetings' = addAudioChunk(meetings, k,
                   [userId |-> userOf(c), userName |-> userNameOf(userOf(c)), data |-> NextId,
                    timestamp |-> clientTime(NextId)], arrival)
  /\ chunks' = [x \in DOMAIN chunks \cup {NextId} |->
                 IF x = NextId
                 THEN [meetingId |-> k, userId |-> userOf(c), userName |-> userNameOf(userOf(c)),
                       audioBuffer |-> NextId, timestamp |-> clientTime(NextId), status |-> "pending"]
                 ELSE chunks[x]]
  /\ events' = Append(events, Received("audio-chunk", c, k, userOf(c), clientTime(NextId)))
  /\ UNCHANGED <<tmp, reply, mailLog, quicks, rooms, connected, jobs, timers, sent, epoch>>

\* The continuation if transcriptions were queued behind one another: a chunk
\* completes only once every earlier chunk has succeeded.
TranscriptionSucceedsInOrder(id) ==
  /\ id \in DOMAIN chunks
  /\ chunks[id].status = "pending"
  /\ \A other \in DOMAIN chunks : other < id => chunks[other].status = "ok"
  /\ LET ch == chunks[id]
         transcriptionText == Whisper(ch.audioBuffer)
     IN  /\ meetings' = addTranscription(meetings, ch.meetingId,
                          [userId |-> ch.userId, userName |-> ch.userName,
                           text |-> transcriptionText, timestamp |-> ch.timestamp], now)
         /\ sent' = Append(sent,
              Emit("live-transcription", "room", ch.meetingId, ToRoom(rooms, ch.meetingId),
                   [userId |-> ch.userId, userName |-> ch.userName,
                    text |-> transcriptionText, timestamp |-> ch.timestamp]))
  /\ chunks' = [chunks EXCEPT ![id].status = "ok"]
  /\ UNCHANGED <<tmp, reply, mailLog, quicks, rooms, connected, jobs, timers, events, epoch>>

\* The continuation stamping the entry with the completion time.
TranscriptionSucceedsStampedNow(id) ==
  /\ id \in DOMAIN chunks
  /\ chunks[id].status = "pending"
  /\ LET ch == chunks[id]
         transcriptionText == Whisper(ch.audioBuffer)
     IN  /\ meetings' = addTranscription(meetings, ch.meetingId,
                          [userId |-> ch.userId, userName |-> ch.userName,
                           text |-> transcriptionText, timestamp |-> now], now)
         /\ sent' = Append(sent,
              Emit("live-transcription", "room", ch.meetingId, ToRoom(rooms, ch.meetingId),
                   [userId |-> ch.userId, userName |-> ch.userName,
                    text |-> transcriptionText, timestamp |-> now]))
  /\ chunks' = [chunks EXCEPT ![id].status = "ok"]
  /\ UNCHANGED <<tmp, reply, mailLog, quicks, rooms, connected, jobs, timers, events, epoch>>

\* The continuation announcing the text with io.emit, to every open
\* connection.
TranscriptionSucceedsToAll(id) ==
  /\ id \in DOMAIN chunks
  /\ chunks[id].status = "pending"
  /\ LET ch == chunks[id]
         transcriptionText == Whisper(ch.audioBuffer)
     IN  /\ meetings' = addTranscription(meetings, ch.meetingId,
                          [userId |-> ch.userId, userName |-> ch.userName,
                           text |-> transcriptionText, timestamp |-> ch.timestamp], now)
         /\ sent' = Append(sent,
              Emit("live-transcription", "room", ch.meetingId, connected,
                   [userId |-> ch.userId, userName |-> ch.userName,
                    text |-> transcriptionText, timestamp |-> ch.timestamp]))
  /\ chunks' = [chunks EXCEPT ![id].status = "ok"]
  /\ UNCHANGED <<tmp, reply, mailLog, quicks, rooms, connected, jobs, timers, events, epoch>>

\* transcribe resolved: the rest of the inner try block.
\* The continuation also rebuilding the prompt of the summaries still being
\* generated for the meeting.
TranscriptionSucceedsRefreshes(id) ==
  /\ id \in DOMAIN chunks
  /\ chunks[id].status = "pending"
  /\ LET ch == chunks[id]
         transcriptionText == Whisper(ch.audioBuffer)
     IN  /\ meetings' = addTranscription(meetings, ch.meetingId,
                          [userId |-> ch.userId, userName |-> ch.userName,
                           text |-> transcriptionText, timestamp |-> ch.timestamp], now)
         /\ sent' = Append(sent,
              Emit("live-transcription", "room", ch.meetingId, ToRoom(rooms, ch.meetingId),
                   [userId |-> ch.userId, userName |-> ch.userName,
                    text |-> transcriptionText, timestamp |-> ch.timestamp]))
         /\ jobs' = [x \in DOMAIN jobs |->
                      IF jobs[x].meetingId = ch.meetingId /\ jobs[x].pc = "summarizing"
                      THEN [jobs[x] EXCEPT !.prompt =
                              generateSummaryPrompt(ch.meetingId, meetings'[ch.meetingId])]
                      ELSE jobs[x]]
  /\ chunks' = [chunks EXCEPT ![id].status = "ok"]
  /\ UNCHANGED <<tmp, reply, mailLog, quicks, rooms, connected, timers, events, epoch>>

TranscriptionSucceeds(id) ==
  /\ id \in DOMAIN chunks
  /\ chunks[id].status = "pending"
  /\ LET ch == chunks[id]
         transcriptionText == Whisper(ch.audioBuffer)
     IN  /\ meetings' = addTranscription(meetings, ch.meetingId,
                          [userId |-> ch.userId, userName |-> ch.userName,
                           text |-> transcriptionText, timestamp |-> ch.timestamp], now)
         /\ sent' = Append(sent,
              Emit("live-transcription", "room", ch.meetingId, ToRoom(rooms, ch.meetingId),
                   [userId |-> ch.userId, userName |-> ch.userName,
                    text |-> transcriptionText, timestamp |-> ch.timestamp]))
  /\ chunks' = [chunks EXCEPT ![id].status = "ok"]
  /\ UNCHANGED <<tmp, reply, mailLog, quicks, rooms, connected, jobs, timers, events, epoch>>

\* The catch storing a placeholder entry, as transcribeMultiple does.
TranscriptionFailsPlaceholder(id) ==
  /\ id \in DOMAIN chunks
  /\ chunks[id].status = "pending"
  /\ meetings' = addTranscription(meetings, chunks[id].meetingId,
                   [userId |-> chunks[id].userId, userName |-> chunks[id].userName,
                    text |-> <<"no disponible">>, timestamp |-> chunks[id].timestamp], now)
  /\ chunks' = [chunks EXCEPT ![id].status = "failed"]
  /\ UNCHANGED <<tmp, reply, mailLog, quicks, rooms, connected, jobs, timers, sent, events, epoch>>

\* transcribe rejected (error or timeout): the inner catch only logs.
TranscriptionFails(id) ==
  /\ id \in DOMAIN chunks
  /\ chunks[id].status = "pending"
  /\ chunks' = [chunks EXCEPT ![id].status = "failed"]
  /\ UNCHANGED <<tmp, reply, mailLog, quicks, meetings, rooms, connected, jobs, timers, sent, events, epoch>>

\* ------------------------------------------------- socket.on('chat-message')
\* The handler acknowledging with io.to(meetingId).emit.
ChatMessageToRoom(c, k) ==
  /\ Active(c)
  /\ Len(events) < MaxEvents
  /\ meetings' = addChatMessage(meetings, k,
                   [userId |-> userOf(c), userName |-> userNameOf(userOf(c)), message |-> NextId,
                    timestamp |-> clientTime(NextId)], arrival)
  /\ sent' = Append(sent, Emit("chat-message-received", "room", k, ToRoom(rooms, k),
                               [success |-> TRUE, timestamp |-> clientTime(NextId)]))
  /\ events' = Append(events, Received("chat-message", c, k, userOf(c), clientTime(NextId)))
  /\ UNCHANGED <<tmp, reply, mailLog, quicks, rooms, connected, chunks, jobs, timers, epoch>>

ChatMessage(c, k) ==
  /\ Active(c)
  /\ Len(events) < MaxEvents
  /\ meetings' = addChatMessage(meetings, k,
                   [userId |-> userOf(c), userName |-> userNameOf(userOf(c)), message |-> NextId,
                    timestamp |-> clientTime(NextId)], arrival)
  /\ sent' = Append(sent, Emit("chat-message-received", "socket", k, ToSocket(c),
                               [success |-> TRUE, timestamp |-> clientTime(NextId)]))
  /\ events' = Append(events, Received("chat-message", c, k, userOf(c), clientTime(NextId)))
  /\ UNCHANGED <<tmp, reply, mailLog, quicks, rooms, connected, chunks, jobs, timers, epoch>>

\* --------------------------------------------- socket.on('generate-summary')
Recipients == <<[id |-> "u1", name |-> "Ana", email |-> "ana@x"]>>

\* Up to the await of anthropic.messages.create inside generateSummary: the
\* prompt is built from the meeting before the call is issued.
GenerateSummary(c, k) ==
  /\ Active(c)
  /\ Len(events) < MaxEvents
  /\ Count("generate-summary") < MaxEnds
  /\ meetings' = endMeeting(meetings, k, arrival)
  /\ IF ~has(meetings', k)
     THEN /\ sent' = Append(sent, Emit("summary-error", "socket", k, ToSocket(c),
                                       [error |-> "Meeting data not found"]))
          /\ jobs' = jobs
     ELSE /\ sent' = Append(sent, Emit("summary-generating", "socket", k, ToSocket(c),
                                       [message |-> "Generando resumen con IA..."]))
          /\ jobs' = [x \in DOMAIN jobs \cup {NextId} |->
                       IF x = NextId
                       THEN [socket |-> c, meetingId |-> k, participants |-> Recipients,
                             prompt |-> generateSummaryPrompt(k, meetings'[k]),
                             held |-> <<>>, pc |-> "summarizing", summary |-> <<>>]
                       ELSE jobs[x]]
  /\ events' = Append(events, Received("generate-summary", c, k, "", 0))
  /\ UNCHANGED <<tmp, reply, mailLog, quicks, rooms, connected, chunks, timers, epoch>>

\* messages.create resolved: parseClaudeResponse, then the handler goes on to
\* the await of emailService.sendSummaryEmail.
SummarizerReturns(id, responseText) ==
  /\ id \in DOMAIN jobs
  /\ jobs[id].pc = "summarizing"
  /\ jobs' = [jobs EXCEPT ![id].pc = "emailing",
                          ![id].summary = <<parseClaudeResponse(responseText, Deref(jobs[id]))>>,
                          ![id].held = <<>>]
  /\ UNCHANGED <<tmp, reply, mailLog, quicks, meetings, rooms, connected, chunks, timers, sent, events, epoch>>

\* The handler with the setTimeout in a finally block: the clear is
\* scheduled on the error path too.
SummarizerThrowsSchedulesClear(id) ==
  /\ id \in DOMAIN jobs
  /\ jobs[id].pc = "summarizing"
  /\ jobs' = [jobs EXCEPT ![id].pc = "error", ![id].held = <<>>]
  /\ sent' = Append(sent, Emit("summary-error", "socket", jobs[id].meetingId,
                               ToSocket(jobs[id].socket),
                               [error |-> "Failed to generate summary"]))
  /\ timers' = timers \cup {[id |-> id, meetingId |-> jobs[id].meetingId]}
  /\ UNCHANGED <<tmp, reply, mailLog, quicks, meetings, rooms, connected, chunks, events, epoch>>

\* The handler with a catch that only logs.
SummarizerThrowsSilent(id) ==
  /\ id \in DOMAIN jobs
  /\ jobs[id].pc = "summarizing"
  /\ jobs' = [jobs EXCEPT ![id].pc = "error", ![id].held = <<>>]
  /\ UNCHANGED <<tmp, reply, mailLog, quicks, meetings, rooms, connected, chunks, timers, sent, events, epoch>>

\* messages.create rejected: generateSummary rethrows, the handler's catch
\* emits summary-error.
SummarizerThrows(id) ==
  /\ id \in DOMAIN jobs
  /\ jobs[id].pc = "summarizing"
  /\ jobs' = [jobs EXCEPT ![id].pc = "error", ![id].held = <<>>]
  /\ sent' = Append(sent, Emit("summary-error", "socket", jobs[id].meetingId,
                               ToSocket(jobs[id].socket),
                               [error |-> "Failed to generate summary"]))
  /\ UNCHANGED <<tmp, reply, mailLog, quicks, meetings, rooms, connected, chunks, timers, events, epoch>>

\* ------------------------------------------------------------ EmailService
\* How the promise of sendSummaryEmail settles: resolved (the summary was
\* delivered to the recipients) or rejected.
DeliveryOutcomes == BOOLEAN

\* The handler without the try/catch around sendSummaryEmail: a rejected
\* delivery reaches the outer catch.
EmailSettlesEscalates(id, delivered) ==
  /\ id \in DOMAIN jobs
  /\ jobs[id].pc = "emailing"
  /\ LET job == jobs[id]
         body == [summary |-> job.summary[1], emailSent |-> TRUE]
     IN  IF delivered
         THEN /\ sent' = sent \o
                   << Emit("summary-ready", "room", job.meetingId, ToRoom(rooms, job.meetingId), body),
                      Emit("summary-ready", "socket", job.meetingId, ToSocket(job.socket), body) >>
              /\ timers' = timers \cup {[id |-> id, meetingId |-> job.meetingId]}
         ELSE /\ sent' = Append(sent, Emit("summary-error", "socket", job.meetingId,
                                           ToSocket(job.socket),
                                           [error |-> "Failed to send summary email"]))
              /\ timers' = timers
  /\ jobs' = [jobs EXCEPT ![id].pc = "done"]
  /\ mailLog' = (IF delivered THEN "sent" ELSE "failed")
  /\ UNCHANGED <<tmp, reply, quicks, meetings, rooms, connected, chunks, events, epoch>>

\* The handler without the second summary-ready, the socket.emit to the
\* requesting socket.
EmailSettlesRoomOnly(id, delivered) ==
  /\ id \in DOMAIN jobs
  /\ jobs[id].pc = "emailing"
  /\ LET job == jobs[id]
         body == [summary |-> job.summary[1], emailSent |-> TRUE]
     IN  /\ sent' = Append(sent,
              Emit("summary-ready", "room", job.meetingId, ToRoom(rooms, job.meetingId), body))
         /\ timers' = timers \cup {[id |-> id, meetingId |-> job.meetingId]}
  /\ jobs' = [jobs EXCEPT ![id].pc = "done"]
  /\ mailLog' = (IF delivered THEN "sent" ELSE "failed")
  /\ UNCHANGED <<tmp, reply, quicks, meetings, rooms, connected, chunks, events, epoch>>

\* sendSummaryEmail settled: the handler logs the outcome (success or, in
\* the inner catch, the error), then come both summary-ready emits and the
\* setTimeout.
EmailSettles(id, delivered) ==
  /\ id \in DOMAIN jobs
  /\ jobs[id].pc = "emailing"
  /\ LET job == jobs[id]
         body == [summary |-> job.summary[1], emailSent |-> TRUE]
     IN  /\ sent' = sent \o
              << Emit("summary-ready", "room", job.meetingId, ToRoom(rooms, job.meetingId), body),
                 Emit("summary-ready", "socket", job.meetingId, ToSocket(job.socket), body) >>
         /\ timers' = timers \cup {[id |-> id, meetingId |-> job.meetingId]}
  /\ jobs' = [jobs EXCEPT ![id].pc = "done"]
  /\ mailLog' = (IF delivered THEN "sent" ELSE "failed")
  /\ UNCHANGED <<tmp, reply, quicks, meetings, rooms, connected, chunks, events, epoch>>

\* The setTimeout callback: storageService.clearMeeting(meetingId).  It runs
\* at some turn of the event loop after the retention delay.
ClearTimerFires(tm) ==
  /\ tm \in timers
  /\ meetings' = clearMeeting(meetings, tm.meetingId)
  /\ jobs' = [x \in DOMAIN jobs |->
               IF /\ jobs[x].meetingId = tm.meetingId
                  /\ jobs[x].pc = "summarizing"
                  /\ jobs[x].held = <<>>
               THEN [jobs[x] EXCEPT !.held = <<meetings[tm.meetingId]>>]
               ELSE jobs[x]]
  /\ timers' = timers \ {tm}
  /\ epoch' = IF has(meetings, tm.meetingId)
              THEN [epoch EXCEPT ![tm.meetingId] = Len(events)]
              ELSE epoch
  /\ UNCHANGED <<tmp, reply, mailLog, quicks, rooms, connected, chunks, sent, events>>

\* -------------------------------------------- socket.on('get-quick-summary')
\* The prompt of generateQuickSummary: the names and the two counts.
generateQuickSummaryPrompt(meetingData) ==
  [participants |-> [i \in 1..Len(meetingData.participants) |->
                       meetingData.participants[i].name],
   transcriptions |-> Len(meetingData.transcriptions),
   chatMessages |-> Len(meetingData.chatMessages)]

\* The handler calling endMeeting first, as generate-summary does.
GetQuickSummaryEnds(c, k) ==
  /\ Active(c)
  /\ Len(events) < MaxEvents
  /\ Count("get-quick-summary") < MaxQuick
  /\ meetings' = endMeeting(meetings, k, arrival)
  /\ IF ~has(meetings, k)
     THEN /\ sent' = Append(sent, Emit("quick-summary-error", "socket", k, ToSocket(c),
                                       [error |-> "Meeting data not found"]))
          /\ quicks' = quicks
     ELSE /\ sent' = sent
          /\ quicks' = [x \in DOMAIN quicks \cup {NextId} |->
                         IF x = NextId
                         THEN [socket |-> c, meetingId |-> k,
                               prompt |-> generateQuickSummaryPrompt(meetings[k])]
                         ELSE quicks[x]]
  /\ events' = Append(events, Received("get-quick-summary", c, k, "", 0))
  /\ UNCHANGED <<tmp, reply, mailLog, rooms, connected, chunks, jobs, timers, epoch>>

\* Up to the await of anthropic.messages.create inside generateQuickSummary,
\* or the whole handler when the meeting is not stored.
GetQuickSummary(c, k) ==
  /\ Active(c)
  /\ Len(events) < MaxEvents
  /\ Count("get-quick-summary") < MaxQuick
  /\ IF ~has(meetings, k)
     THEN /\ sent' = Append(sent, Emit("quick-summary-error", "socket", k, ToSocket(c),
                                       [error |-> "Meeting data not found"]))
          /\ quicks' = quicks
     ELSE /\ sent' = sent
          /\ quicks' = [x \in DOMAIN quicks \cup {NextId} |->
                         IF x = NextId
                         THEN [socket |-> c, meetingId |-> k,
                               prompt |-> generateQuickSummaryPrompt(meetings[k])]
                         ELSE quicks[x]]
  /\ events' = Append(events, Received("get-quick-summary", c, k, "", 0))
  /\ UNCHANGED <<tmp, reply, mailLog, meetings, rooms, connected, chunks, jobs, timers, epoch>>

\* messages.create resolved: the trimmed text goes to the requesting socket
\* and the handler run ends.
QuickSummaryReturns(id) ==
  /\ id \in DOMAIN quicks
  /\ sent' = Append(sent, Emit("quick-summary-ready", "socket", quicks[id].meetingId,
                               ToSocket(quicks[id].socket),
                               [summary |-> <<"breve", quicks[id].prompt>>]))
  /\ quicks' = [x \in DOMAIN quicks \ {id} |-> quicks[x]]
  /\ UNCHANGED <<tmp, reply, mailLog, meetings, rooms, connected, chunks, jobs, timers, events, epoch>>

\* messages.create rejected: generateQuickSummary's catch returns its fixed
\* text, which the handler sends as the summary.
QuickSummaryFails(id) ==
  /\ id \in DOMAIN quicks
  /\ sent' = Append(sent, Emit("quick-summary-ready", "socket", quicks[id].meetingId,
                               ToSocket(quicks[id].socket),
                               [summary |-> <<"No se pudo generar un resumen rapido.">>]))
  /\ quicks' = [x \in DOMAIN quicks \ {id} |-> quicks[x]]
  /\ UNCHANGED <<tmp, reply, mailLog, meetings, rooms, connected, chunks, jobs, timers, events, epoch>>

\* ------------------------------------------------ socket.on('leave-meeting')
\* The handler also dropping the leaving user from the participant log.
LeaveMeetingForgets(c, k) ==
  /\ Active(c)
  /\ Len(events) < MaxEvents
  /\ rooms' = [rooms EXCEPT ![k] = @ \ {c}]
  /\ meetings' = IF has(meetings, k)
                 THEN set(meetings, k,
                          [meetings[k] EXCEPT !.participants =
                             SelectSeq(@, LAMBDA p : p.id # userOf(c))])
                 ELSE meetings
  /\ sent' = Append(sent, Emit("participant-left", "others", k, ToOthers(rooms', c, k),
                               [userId |-> userOf(c), userName |-> userNameOf(userOf(c)), timestamp |-> arrival]))
  /\ events' = Append(events, Received("leave-meeting", c, k, userOf(c), 0))
  /\ UNCHANGED <<tmp, reply, mailLog, quicks, connected, chunks, jobs, timers, epoch>>

LeaveMeeting(c, k) ==
  /\ Active(c)
  /\ Len(events) < MaxEvents
  /\ rooms' = [rooms EXCEPT ![k] = @ \ {c}]
  /\ sent' = Append(sent, Emit("participant-left", "others", k, ToOthers(rooms', c, k),
                               [userId |-> userOf(c), userName |-> userNameOf(userOf(c)), timestamp |-> arrival]))
  /\ events' = Append(events, Received("leave-meeting", c, k, userOf(c), 0))
  /\ UNCHANGED <<tmp, reply, mailLog, quicks, meetings, connected, chunks, jobs, timers, epoch>>

\* --------------------------------------------------- socket.on('disconnect')
\* Socket.IO has removed the socket from its rooms; the handler only logs.
Disconnect(c) ==
  /\ Active(c)
  /\ Len(events) < MaxEvents
  /\ connected' = connected \ {c}
  /\ rooms' = [k \in DOMAIN rooms |-> rooms[k] \ {c}]
  /\ events' = Append(events, Received("disconnect", c, "", "", 0))
  /\ UNCHANGED <<tmp, reply, mailLog, quicks, meetings, chunks, jobs, timers, sent, epoch>>

\* ------------------------------------------------------------------ clock
Next ==
  \/ \E c \in Sockets, k \in Keys, u \in Users : JoinMeeting(c, k, u)
  \/ \E c \in Sockets, k \in Keys : AudioChunk(c, k)
  \/ \E id \in DOMAIN chunks : TranscriptionSucceeds(id)
  \/ \E id \in DOMAIN chunks : TranscriptionFails(id)
  \/ \E c \in Sockets, k \in Keys : ChatMessage(c, k)
  \/ \E k \in Keys : GenerateSummary(Organizer, k)
  \/ \E id \in DOMAIN jobs, r \in Responses : SummarizerReturns(id, r)
  \/ \E id \in DOMAIN jobs : SummarizerThrows(id)
  \/ \E id \in DOMAIN jobs, d \in DeliveryOutcomes : EmailSettles(id, d)
  \/ \E tm \in timers : ClearTimerFires(tm)
  \/ \E k \in Keys : GetQuickSummary(Organizer, k)
  \/ \E id \in DOMAIN quicks : QuickSummaryReturns(id)
  \/ \E id \in DOMAIN quicks : QuickSummaryFails(id)
  \/ \E c \in Sockets, k \in Keys : LeaveMeeting(c, k)
  \/ \E c \in Sockets : Disconnect(c)

Spec == Init /\ [][Next]_vars

\* The end-of-meeting lifecycle on its own: clients join and ask for the
\* summary, the summarizer and the mail delivery settle, the clear timers
\* fire.  The event loop runs every callback that is due: a timer set with
\* setTimeout fires, and the awaited delivery settles (the mail transport
\* answers or times out), after which the handler runs on.
TimerIds == [id : 1..MaxEvents, meetingId : Keys]

Lifecycle ==
  \/ \E c \in Sockets, k \in Keys : JoinMeeting(c, k, userOf(c))
  \/ \E k \in Keys : GenerateSummary(Organizer, k)
  \/ \E id \in DOMAIN jobs, r \in Responses : SummarizerReturns(id, r)
  \/ \E id \in DOMAIN jobs : SummarizerThrows(id)
  \/ \E id \in DOMAIN jobs, d \in DeliveryOutcomes : EmailSettles(id, d)
  \/ \E tm \in timers : ClearTimerFires(tm)

FairSpec ==
  /\ Init /\ [][Lifecycle]_vars
  /\ \A tm \in TimerIds : WF_vars(ClearTimerFires(tm))
  /\ \A id \in 1..MaxEvents : WF_vars(\E d \in DeliveryOutcomes : EmailSettles(id, d))

\* The same steps when, as well, every call of the summarizer settles.
AnswerSpec ==
  /\ Init /\ [][Lifecycle]_vars
  /\ \A tm \in TimerIds : WF_vars(ClearTimerFires(tm))
  /\ \A id \in 1..MaxEvents : WF_vars(\E d \in DeliveryOutcomes : EmailSettles(id, d))
  /\ \A id \in 1..MaxEvents :
       WF_vars((\E r \in Responses : SummarizerReturns(id, r)) \/ SummarizerThrows(id))

\* ------------------------------------------- StorageService and the REST API
\* The store on its own: its methods called directly, as the handlers call
\* them, and the three GET routes of the Express app that read it.  Calls
\* and requests are logged in events, a minute apart like the socket events.
StoreKeys == {"m1", "m2"}

Called(name, k) == Received(name, "", k, "", 0)

Returned(name, k, value) == [call |-> name, meetingId |-> k, value |-> value]

InitMeeting(k) ==
  /\ Len(events) < MaxEvents
  /\ meetings' = initMeeting(meetings, k, arrival)
  /\ reply' = Returned("initMeeting", k, <<>>)
  /\ events' = Append(events, Called("initMeeting", k))
  /\ UNCHANGED <<tmp, rooms, connected, chunks, jobs, mailLog, quicks, timers, sent, epoch>>

AddParticipant(k, u) ==
  /\ Len(events) < MaxEvents
  /\ meetings' = addParticipant(meetings, k,
                   [id |-> u, name |-> userNameOf(u), email |-> userEmailOf(u)], arrival)
  /\ reply' = Returned("addParticipant", k, <<>>)
  /\ events' = Append(events, Called("addParticipant", k))
  /\ UNCHANGED <<tmp, rooms, connected, chunks, jobs, mailLog, quicks, timers, sent, epoch>>

AddAudioChunk(k) ==
  /\ Len(events) < MaxEvents
  /\ meetings' = addAudioChunk(meetings, k,
                   [userId |-> "u1", userName |-> userNameOf("u1"), data |-> NextId,
                    timestamp |-> clientTime(NextId)], arrival)
  /\ reply' = Returned("addAudioChunk", k, <<>>)
  /\ events' = Append(events, Called("addAudioChunk", k))
  /\ UNCHANGED <<tmp, rooms, connected, chunks, jobs, mailLog, quicks, timers, sent, epoch>>

AddTranscription(k) ==
  /\ Len(events) < MaxEvents
  /\ meetings' = addTranscription(meetings, k,
                   [userId |-> "u1", userName |-> userNameOf("u1"), text |-> Whisper(NextId),
                    timestamp |-> clientTime(NextId)], arrival)
  /\ reply' = Returned("addTranscription", k, <<>>)
  /\ events' = Append(events, Called("addTranscription", k))
  /\ UNCHANGED <<tmp, rooms, connected, chunks, jobs, mailLog, quicks, timers, sent, epoch>>

AddChatMessage(k) ==
  /\ Len(events) < MaxEvents
  /\ meetings' = addChatMessage(meetings, k,
                   [userId |-> "u1", userName |-> userNameOf("u1"), message |-> NextId,
                    timestamp |-> clientTime(NextId)], arrival)
  /\ reply' = Returned("addChatMessage", k, <<>>)
  /\ events' = Append(events, Called("addChatMessage", k))
  /\ UNCHANGED <<tmp, rooms, connected, chunks, jobs, mailLog, quicks, timers, sent, epoch>>

EndMeeting(k) ==
  /\ Len(events) < MaxEvents
  /\ meetings' = endMeeting(meetings, k, arrival)
  /\ reply' = Returned("endMeeting", k, <<>>)
  /\ events' = Append(events, Called("endMeeting", k))
  /\ UNCHANGED <<tmp, rooms, connected, chunks, jobs, mailLog, quicks, timers, sent, epoch>>

ClearMeeting(k) ==
  /\ Len(events) < MaxEvents
  /\ meetings' = clearMeeting(meetings, k)
  /\ reply' = Returned("clearMeeting", k, clearMeetingReturns(meetings, k))
  /\ events' = Append(events, Called("clearMeeting", k))
  /\ UNCHANGED <<tmp, rooms, connected, chunks, jobs, mailLog, quicks, timers, sent, epoch>>

\* An HTTP response: the status and the JSON body.
Response(route, k, status, body) ==
  [call |-> route, meetingId |-> k, status |-> status, body |-> body]

NotFound == [success |-> FALSE, error |-> "Meeting not found"]

\* app.get('/api/meetings')
ApiMeetings ==
  /\ Len(events) < MaxEvents
  /\ LET all == getAllMeetings(meetings)
     IN  reply' = Response("GET /api/meetings", "", 200,
           [success |-> TRUE,
            count |-> Cardinality(all),
            meetings |-> {[meetingId |-> m.meetingId,
                           participantCount |-> Len(m.data.participants),
                           transcriptionCount |-> Len(m.data.transcriptions),
                           chatMessageCount |-> Len(m.data.chatMessages),
                           startTime |-> m.data.startTime,
                           endTime |-> m.data.endTime] : m \in all}])
  /\ events' = Append(events, Called("GET /api/meetings", ""))
  /\ UNCHANGED <<tmp, meetings, rooms, connected, chunks, jobs, mailLog, quicks, timers, sent, epoch>>

\* The route creating the meeting it is asked for, as the add methods do.
ApiMeetingCreates(k) ==
  /\ Len(events) < MaxEvents
  /\ meetings' = initMeeting(meetings, k, arrival)
  /\ reply' = Response("GET /api/meetings/:meetingId", k, 200,
                        [success |-> TRUE, meeting |-> meetings'[k]])
  /\ events' = Append(events, Called("GET /api/meetings/:meetingId", k))
  /\ UNCHANGED <<tmp, rooms, connected, chunks, jobs, mailLog, quicks, timers, sent, epoch>>

\* app.get('/api/meetings/:meetingId')
ApiMeeting(k) ==
  /\ Len(events) < MaxEvents
  /\ LET meeting == getMeetingData(meetings, k)
     IN  reply' = IF meeting = <<>>
                  THEN Response("GET /api/meetings/:meetingId", k, 404, NotFound)
                  ELSE Response("GET /api/meetings/:meetingId", k, 200,
                                [success |-> TRUE, meeting |-> meeting[1]])
  /\ events' = Append(events, Called("GET /api/meetings/:meetingId", k))
  /\ UNCHANGED <<tmp, meetings, rooms, connected, chunks, jobs, mailLog, quicks, timers, sent, epoch>>

\* app.get('/api/meetings/:meetingId/stats')
ApiMeetingStats(k) ==
  /\ Len(events) < MaxEvents
  /\ LET stats == getMeetingStats(meetings, k)
     IN  reply' = IF stats = <<>>
                  THEN Response("GET /api/meetings/:meetingId/stats", k, 404, NotFound)
                  ELSE Response("GET /api/meetings/:meetingId/stats", k, 200,
                                [success |-> TRUE, stats |-> stats[1]])
  /\ events' = Append(events, Called("GET /api/meetings/:meetingId/stats", k))
  /\ UNCHANGED <<tmp, meetings, rooms, connected, chunks, jobs, mailLog, quicks, timers, sent, epoch>>

StoreNext ==
  \/ \E k \in StoreKeys : InitMeeting(k)
  \/ \E k \in StoreKeys, u \in Users : AddParticipant(k, u)
  \/ \E k \in StoreKeys : AddAudioChunk(k)
  \/ \E k \in StoreKeys : AddTranscription(k)
  \/ \E k \in StoreKeys : AddChatMessage(k)
  \/ \E k \in StoreKeys : EndMeeting(k)
  \/ \E k \in StoreKeys : ClearMeeting(k)
  \/ ApiMeetings
  \/ \E k \in StoreKeys : ApiMeeting(k)
  \/ \E k \in StoreKeys : ApiMeetingStats(k)

StoreSpec == Init /\ [][StoreNext]_vars

\* ------------------------------------------------------- two meetings
\* The socket handlers serving two meetings at once: the same handlers and
\* continuations, with the rooms of both keys.  Each socket speaks for its
\* own user, audio and chat come from the organizer's socket, the model
\* answers with JSON and the email is delivered.
PairInit ==
  /\ meetings = <<>>
  /\ rooms = [k \in StoreKeys |-> {}]
  /\ connected = Sockets
  /\ chunks = <<>>
  /\ jobs = <<>>
  /\ mailLog = "none"
  /\ quicks = <<>>
  /\ timers = {}
  /\ sent = <<>>
  /\ events = <<>>
  /\ epoch = [k \in StoreKeys |-> 0]
  /\ reply = [call |-> "none"]
  /\ tmp = NoCalls

PairNext ==
  \/ \E c \in Sockets, k \in StoreKeys : JoinMeeting(c, k, userOf(c))
  \/ \E k \in StoreKeys : AudioChunk(Organizer, k)
  \/ \E id \in DOMAIN chunks : TranscriptionSucceeds(id)
  \/ \E k \in StoreKeys : ChatMessage(Organizer, k)
  \/ \E k \in StoreKeys : GenerateSummary(Organizer, k)
  \/ \E id \in DOMAIN jobs : SummarizerReturns(id, JsonResponse)
  \/ \E id \in DOMAIN jobs : EmailSettles(id, TRUE)
  \/ \E tm \in timers : ClearTimerFires(tm)
  \/ \E k \in StoreKeys : GetQuickSummary(Organizer, k)
  \/ \E id \in DOMAIN quicks : QuickSummaryReturns(id)
  \/ \E c \in Sockets, k \in StoreKeys : LeaveMeeting(c, k)

PairSpec == PairInit /\ [][PairNext]_vars

\* ------------------------------------------ TranscriptionService.transcribe
\* Calls of transcribe on their own.  The n-th call is given the buffer n.
\* Date.now() has either not advanced since the previous call or advanced by
\* a millisecond; the temporary file is named after it.
MaxCalls == 3

tempFilePath(ms) == <<"audio-", ms, ".webm">>

server == <<meetings, rooms, connected, chunks, jobs, mailLog, quicks, timers,
            sent, events, epoch, reply>>

\* Up to the await of audio.transcriptions.create: writeFileSync has written
\* the buffer, createReadStream has not opened the file yet.
Transcribe(ms) ==
  /\ Len(tmp.calls) < MaxCalls
  /\ ms \in {tmp.ms, tmp.ms + 1}
  /\ tmp' = [ms |-> ms,
             files |-> set(tmp.files, tempFilePath(ms), Len(tmp.calls) + 1),
             calls |-> Append(tmp.calls,
                              [tempFilePath |-> tempFilePath(ms),
                               audioBuffer |-> Len(tmp.calls) + 1,
                               pc |-> "written", submitted |-> <<>>])]
  /\ UNCHANGED server

\* The read stream opens the file and the request body is read from it:
\* what is submitted is what the file holds at that moment.
StreamReads(id) ==
  /\ id \in DOMAIN tmp.calls
  /\ tmp.calls[id].pc = "written"
  /\ has(tmp.files, tmp.calls[id].tempFilePath)
  /\ tmp' = [tmp EXCEPT !.calls[id].pc = "uploading",
                        !.calls[id].submitted = <<tmp.files[tmp.calls[id].tempFilePath]>>]
  /\ UNCHANGED server

\* The finally block: unlinkSync if existsSync.
cleanup(files, f) == [x \in DOMAIN files \ {f} |-> files[x]]

\* The read stream finds no file (ENOENT): the request rejects, the catch
\* rethrows, the finally block finds nothing to delete.
StreamFails(id) ==
  /\ id \in DOMAIN tmp.calls
  /\ tmp.calls[id].pc = "written"
  /\ ~has(tmp.files, tmp.calls[id].tempFilePath)
  /\ tmp' = [tmp EXCEPT !.calls[id].pc = "failed"]
  /\ UNCHANGED server

\* The request settled, resolved or rejected; the finally block runs.
TranscribeSettles(id, resolved) ==
  /\ id \in DOMAIN tmp.calls
  /\ tmp.calls[id].pc = "uploading"
  /\ tmp' = [tmp EXCEPT !.calls[id].pc = (IF resolved THEN "done" ELSE "failed"),
                        !.files = cleanup(@, tmp.calls[id].tempFilePath)]
  /\ UNCHANGED server

TempNext ==
  \/ \E ms \in 0..MaxCalls : Transcribe(ms)
  \/ \E id \in 1..MaxCalls : StreamReads(id)
  \/ \E id \in 1..MaxCalls : StreamFails(id)
  \/ \E id \in 1..MaxCalls, resolved \in BOOLEAN : TranscribeSettles(id, resolved)

TempSpec == Init /\ [][TempNext]_vars

\* ================================================================ claims
IsPrefix(a, b) == Len(a) <= Len(b) /\ SubSeq(b, 1, Len(a)) = a

RECURSIVE FirstSeen(_)
FirstSeen(ids) ==
  IF ids = <<>> THEN <<>>
  ELSE LET r == FirstSeen(SubSeq(ids, 1, Len(ids) - 1))
           x == ids[Len(ids)]
       IN  IF \E i \in 1..Len(r) : r[i] = x THEN r ELSE Append(r, x)

\* The identifiers named by the join events for k since k was last cleared.
JoinsSince(k) ==
  LET js == SelectSeq(SubSeq(events, epoch[k] + 1, Len(events)),
                      LAMBDA e : e.type = "join-meeting" /\ e.meetingId = k)
  IN  [i \in 1..Len(js) |-> js[i].userId]

EventIds(type, k) ==
  {i \in 1..Len(events) : events[i].type = type /\ events[i].meetingId = k}

JobsOf(js, k) == {i \in DOMAIN js : js[i].meetingId = k}

\* The session now stored under k has had its summary produced and broadcast.
Summarized(k) ==
  /\ has(meetings, k)
  /\ \E i \in JobsOf(jobs, k) : i > epoch[k] /\ jobs[i].pc = "done"

\* C1: two generate-summary triggers for the same meeting handled concurrently
\* invoke the summarizer only once: no second call is issued for a key while
\* a first one is in flight.
C1_SingleInvocation ==
  \A i, j \in DOMAIN jobs :
    (i # j /\ jobs[i].meetingId = jobs[j].meetingId)
      => ~(jobs[i].pc = "summarizing" /\ jobs[j].pc = "summarizing")

\* C2: a generate-summary trigger arriving after the summary of the stored
\* session was produced and broadcast is a no-op: no new summarizer call for
\* that key, no further summary-generating or summary-ready emit.
C2_NoOpAfterSummary ==
  [][\A k \in Keys :
       (Summarized(k) /\ Len(events') > Len(events)
          /\ events'[Len(events')].type = "generate-summary"
          /\ events'[Len(events')].meetingId = k)
         => (jobs' = jobs /\ sent' = sent /\ timers' = timers)]_vars

\* C3: once a session's endTime is set, it keeps that value in every later
\* state in which the session is still stored.
C3_EndTimeStable ==
  [][\A k \in Keys :
       (has(meetings, k) /\ has(meetings', k) /\ meetings[k].endTime # NoTime)
         => meetings'[k].endTime = meetings[k].endTime]_vars

\* C4: the participant log of every session holds each identifier at most
\* once, in the order in which the join events first named them.
C4_ParticipantsFirstSeen ==
  \A k \in DOMAIN meetings :
    [i \in 1..Len(meetings[k].participants) |-> meetings[k].participants[i].id]
      = FirstSeen(JoinsSince(k))

C4_Witness ==
  \E k \in DOMAIN meetings :
    /\ Len(meetings[k].participants) = 2
    /\ Len(JoinsSince(k)) = 3
    /\ \E i, j \in 1..Len(events) : i # j /\ events[i].type = "join-meeting"
          /\ events[j].type = "join-meeting" /\ events[i].userId = events[j].userId
          /\ events[i].socket # events[j].socket

\* C5: for a key that was never cleared, once no transcription is pending the
\* chat log holds exactly one entry per chat event and the transcript exactly
\* one entry per audio chunk whose transcription succeeded.
C5_NoLossNoDuplicate ==
  \A k \in DOMAIN meetings :
    (epoch[k] = 0 /\ \A id \in DOMAIN chunks :
                        chunks[id].meetingId = k => chunks[id].status # "pending")
      => LET m == meetings[k]
             okIds == {id \in DOMAIN chunks :
                         chunks[id].meetingId = k /\ chunks[id].status = "ok"}
         IN  /\ Len(m.chatMessages) = Cardinality(EventIds("chat-message", k))
             /\ \A e \in EventIds("chat-message", k) :
                  Cardinality({i \in 1..Len(m.chatMessages) :
                                 m.chatMessages[i].message = e}) = 1
             /\ Len(m.transcriptions) = Cardinality(okIds)
             /\ \A id \in okIds :
                  Cardinality({i \in 1..Len(m.transcriptions) :
                                 m.transcriptions[i].text = Whisper(id)}) = 1

C5_Witness ==
  \E k \in DOMAIN meetings :
    /\ epoch[k] = 0
    /\ Len(meetings[k].chatMessages) = 2
    /\ Len(meetings[k].transcriptions) = 1
    /\ \A id \in DOMAIN chunks : chunks[id].status = "ok"
    /\ \E i, j \in 1..Len(events) : events[i].socket # events[j].socket

\* C6: in every step that keeps a session in the store, its transcript and its
\* chat log before the step are prefixes of the logs after the step.
C6_AppendOnly ==
  [][\A k \in Keys :
       (has(meetings, k) /\ has(meetings', k))
         => /\ IsPrefix(meetings[k].transcriptions, meetings'[k].transcriptions)
            /\ IsPrefix(meetings[k].chatMessages, meetings'[k].chatMessages)]_vars

C6_Witness ==
  \E k \in DOMAIN meetings :
    /\ Len(meetings[k].transcriptions) = 2
    /\ Len(meetings[k].chatMessages) = 1

\* C7: when the transcription of a chunk fails, no transcript entry is added,
\* no live-transcription is emitted, and the sessions (the chunk's raw audio
\* record included) stay as they were.
C7_FailureContained ==
  [][\A id \in DOMAIN chunks :
       (chunks[id].status = "pending" /\ chunks'[id].status = "failed")
         => /\ meetings' = meetings
            /\ \A i \in 1..Len(sent') :
                 (i > Len(sent)) => sent'[i].event # "live-transcription"]_vars

C7_Witness ==
  \E id \in DOMAIN chunks :
    /\ chunks[id].status = "failed"
    /\ has(meetings, chunks[id].meetingId)
    /\ LET m == meetings[chunks[id].meetingId]
       IN  /\ \E i \in 1..Len(m.audioChunks) : m.audioChunks[i].data = chunks[id].audioBuffer
           /\ \A i \in 1..Len(m.transcriptions) : m.transcriptions[i].text # Whisper(id)
           /\ Len(m.transcriptions) = 1

\* C8: an outstanding or failed transcription blocks nothing: every pending
\* transcription can still complete whatever became of the others, every
\* completed one was broadcast (and appended, for a key never cleared), and
\* the connected clients' join, chat, audio and generate-summary events are
\* still handled.
C8_NonBlocking ==
  /\ \A id \in DOMAIN chunks :
       chunks[id].status = "pending" => ENABLED TranscriptionSucceeds(id)
  /\ \A id \in DOMAIN chunks :
       chunks[id].status = "ok" =>
         /\ \E i \in 1..Len(sent) : /\ sent[i].event = "live-transcription"
                                    /\ sent[i].body.text = Whisper(id)
         /\ epoch[chunks[id].meetingId] = 0 =>
              \E i \in 1..Len(meetings[chunks[id].meetingId].transcriptions) :
                 meetings[chunks[id].meetingId].transcriptions[i].text = Whisper(id)
  /\ (Len(events) < MaxEvents /\ \E id \in DOMAIN chunks : chunks[id].status # "ok") =>
       \A c \in {x \in Sockets : Active(x)}, k \in Keys :
         /\ ENABLED JoinMeeting(c, k, userOf(c))
         /\ ENABLED ChatMessage(c, k)
         /\ Count("audio-chunk") < MaxAudio => ENABLED AudioChunk(c, k)
         /\ (c = Organizer /\ Count("generate-summary") < MaxEnds)
              => ENABLED GenerateSummary(c, k)

C8_Witness ==
  /\ 1 \in DOMAIN chunks /\ chunks[1].status = "failed"
  /\ 2 \in DOMAIN chunks /\ chunks[2].status = "ok"
  /\ \E i \in 1..Len(sent) : /\ sent[i].event = "live-transcription"
                             /\ sent[i].body.text = Whisper(2)
  /\ Len(events) = 3 /\ events[3].type = "chat-message"

\* C9: every transcript entry and every live-transcription event carries the
\* user id, user name and client timestamp of the audio-chunk event whose
\* audio it transcribes.
FromItsChunk(e) ==
  \E id \in 1..Len(events) :
    /\ events[id].type = "audio-chunk"
    /\ e.text = Whisper(id)
    /\ e.userId = events[id].userId
    /\ e.userName = userNameOf(events[id].userId)
    /\ e.timestamp = events[id].timestamp

C10_PromptChronological ==
  \A id \in DOMAIN jobs :
    \A i, j \in 1..Len(jobs[id].prompt.transcriptions) :
      i < j => jobs[id].prompt.transcriptions[i].time
                 <= jobs[id].prompt.transcriptions[j].time

\* The Summary is the catch block's fallback of parseClaudeResponse.
IsFallback(s) == s.summary[1] = "raw"

Names(ps) == [i \in 1..Len(ps) |-> ps[i].name]

\* The emits of one step.
NewEmits == SubSeq(sent', Len(sent) + 1, Len(sent'))

Settles(id, from, to) ==
  id \in DOMAIN jobs /\ jobs[id].pc = from /\ jobs'[id].pc = to

\* C11 (as claimed): whenever the summarization fails for a generate-summary
\* trigger on a stored session, be it the model call or the parsing of its
\* answer, summary-ready is still emitted with a non-empty fallback summary
\* and no summary-error is emitted for the failure.
C11_FallbackOnAnyFailure ==
  /\ \A i \in 1..Len(sent) :
       sent[i].event = "summary-error" => sent[i].body.error # "Failed to generate summary"
  /\ \A id \in DOMAIN jobs :
       jobs[id].pc = "error" =>
         \E i \in 1..Len(sent) : /\ sent[i].event = "summary-ready"
                                 /\ sent[i].meetingId = jobs[id].meetingId
                                 /\ IsFallback(sent[i].body.summary)

\* C11 (amended): when the model's answer cannot be parsed, the handler goes
\* on without any error emit, with a fallback Summary that has a non-empty
\* text and names exactly the participants of the meeting object it holds,
\* and that Summary is what both summary-ready emits then carry.
C11_UnparsableFallback ==
  [][\A id \in DOMAIN jobs :
       /\ (Settles(id, "summarizing", "emailing") /\ IsFallback(jobs'[id].summary[1]))
            => /\ sent' = sent
               /\ jobs'[id].summary[1].summary[2] > 0
               /\ Names(jobs'[id].summary[1].participants)
                    = Names(Deref(jobs[id]).participants)
       /\ (Settles(id, "emailing", "done") /\ IsFallback(jobs[id].summary[1]))
            => /\ Len(NewEmits) = 2
               /\ \A i \in 1..2 : /\ NewEmits[i].event = "summary-ready"
                                  /\ NewEmits[i].body.summary = jobs[id].summary[1]
               /\ NewEmits[1].to = rooms[jobs[id].meetingId]
               /\ jobs[id].socket \in connected => NewEmits[2].to = {jobs[id].socket}]_vars

C11_Witness ==
  \E id \in DOMAIN jobs :
    /\ jobs[id].pc = "done"
    /\ IsFallback(jobs[id].summary[1])
    /\ Len(jobs[id].summary[1].participants) = 1
    /\ \E i \in 1..Len(sent) : /\ sent[i].event = "summary-ready"
                               /\ sent[i].kind = "room"
                               /\ sent[i].to # {}
                               /\ sent[i].body.summary = jobs[id].summary[1]

\* The step handles a generate-summary event for k.
Triggers(k) ==
  /\ Len(events') = Len(events) + 1
  /\ events'[Len(events')].type = "generate-summary"
  /\ events'[Len(events')].meetingId = k

C13_EmailFailureHidden ==
  [][\A id \in DOMAIN jobs :
       Settles(id, "emailing", "done")
         => LET k == jobs[id].meetingId
                body == [summary |-> jobs[id].summary[1], emailSent |-> TRUE]
            IN  /\ NewEmits = << Emit("summary-ready", "room", k, rooms[k], body),
                                 Emit("summary-ready", "socket", k,
                                      {jobs[id].socket} \cap connected, body) >>
                /\ timers' = timers \cup {[id |-> id, meetingId |-> k]}
                /\ meetings' = meetings
                /\ rooms' = rooms]_vars

C13_Witness ==
  \E id \in DOMAIN jobs :
    /\ jobs[id].pc = "done"
    /\ mailLog = "failed"
    /\ Len(sent) >= 2 /\ sent[Len(sent)].event = "summary-ready"
    /\ [id |-> id, meetingId |-> jobs[id].meetingId] \in timers
    /\ \E i \in 1..Len(sent) : /\ sent[i].event = "summary-ready"
                               /\ sent[i].kind = "room"
                               /\ sent[i].to = Sockets
                               /\ sent[i].body.summary = jobs[id].summary[1]
    /\ \A i \in 1..Len(sent) : sent[i].event # "summary-error"

\* C14: once a summary has been produced the handler schedules a clear of
\* the meeting; when that timer fires, whatever session is stored under the
\* key then is removed; and no session leaves the store before a summary for
\* its key has been produced and announced.
C14_ClearedAfterSummary ==
  /\ \A id \in 1..MaxEvents :
       (id \in DOMAIN jobs /\ jobs[id].pc = "emailing")
         ~> (id \in DOMAIN jobs /\ jobs[id].pc = "done")
  /\ [][\A id \in DOMAIN jobs :
          Settles(id, "emailing", "done")
            => [id |-> id, meetingId |-> jobs[id].meetingId] \in timers' \ timers]_vars
  /\ \A tm \in TimerIds :
       (tm \in timers) ~> (tm \notin timers /\ ~has(meetings, tm.meetingId))
  /\ [][\A k \in Keys :
          (has(meetings, k) /\ ~has(meetings', k))
            => \E id \in JobsOf(jobs, k) : jobs[id].pc = "done"]_vars

C14_Witness ==
  \E id \in DOMAIN jobs :
    /\ jobs[id].pc = "done"
    /\ timers = {}
    /\ ~has(meetings, jobs[id].meetingId)
    /\ epoch[jobs[id].meetingId] >= id

\* C15: a clear timer removes only the session whose summary scheduled it:
\* when a timer's callback deletes a session, that session is the one that
\* was stored when the timer's generate-summary trigger arrived, never one
\* created under the same key after an earlier clear.
C15_ClearsOwnIncarnation ==
  [][\A tm \in timers :
       (tm \notin timers' /\ has(meetings, tm.meetingId) /\ ~has(meetings', tm.meetingId))
         => epoch[tm.meetingId] < tm.id]_vars

\* The events that add to a session.
Appending == {"join-meeting", "audio-chunk", "chat-message"}

\* C16: after a key has been cleared, the first join, audio-chunk or
\* chat-message event for it leaves under the key a new session that holds
\* the entry of that event and nothing else (nothing of the earlier
\* session), starts at the event's arrival and has no endTime.
C16_FreshAfterClear ==
  [][\A k \in Keys :
       LET e == events'[Len(events')]
       IN  (/\ epoch[k] > 0
            /\ Len(events') > Len(events)
            /\ e.type \in Appending /\ e.meetingId = k
            /\ \A i \in (epoch[k] + 1)..Len(events) :
                 ~(events[i].type \in Appending /\ events[i].meetingId = k))
             => LET m == meetings'[k]
                IN  /\ m.startTime = arrival
                    /\ m.endTime = NoTime
                    /\ m.transcriptions = <<>>
                    /\ Len(m.participants) + Len(m.chatMessages) + Len(m.audioChunks) = 1
                    /\ e.type = "join-meeting"
                         => Len(m.participants) = 1 /\ m.participants[1].id = e.userId
                    /\ e.type = "chat-message"
                         => Len(m.chatMessages) = 1 /\ m.chatMessages[1].message = Len(events')
                    /\ e.type = "audio-chunk"
                         => Len(m.audioChunks) = 1 /\ m.audioChunks[1].data = Len(events')]_vars

\* The step handles an event of the given type for k.
Receives(type, k) ==
  /\ Len(events') = Len(events) + 1
  /\ events'[Len(events')].type = type
  /\ events'[Len(events')].meetingId = k

ErrorEventOf(type) ==
  IF type = "generate-summary" THEN "summary-error" ELSE "quick-summary-error"

\* C17: a generate-summary or get-quick-summary request for a key with no
\* stored session is answered by exactly one error event (summary-error,
\* quick-summary-error) to the requesting socket only; no session is created,
\* no call to the summarizer or the mail delivery is started and no clear is
\* scheduled.
C17_UnknownKeyError ==
  [][\A k \in Keys, type \in {"generate-summary", "get-quick-summary"} :
       (~has(meetings, k) /\ Receives(type, k))
         => /\ Len(NewEmits) = 1
            /\ NewEmits[1].event = ErrorEventOf(type)
            /\ NewEmits[1].kind = "socket"
            /\ NewEmits[1].to = {events'[Len(events')].socket} \cap connected
            /\ NewEmits[1].body.error = "Meeting data not found"
            /\ meetings' = meetings
            /\ jobs' = jobs /\ quicks' = quicks
            /\ mailLog' = mailLog
            /\ timers' = timers]_vars

C17_Witness ==
  /\ meetings = <<>> /\ jobs = <<>> /\ quicks = <<>> /\ timers = {}
  /\ Len(events) = 2 /\ Len(sent) = 2
  /\ \E i \in 1..2 : sent[i].event = "summary-error" /\ sent[i].to = {Organizer}
  /\ \E i \in 1..2 : sent[i].event = "quick-summary-error" /\ sent[i].to = {Organizer}

\* C18: a get-quick-summary request and the continuation that answers it
\* leave the store, the rooms, the timers and every generate-summary run as
\* they are, whatever the state of the session, and emit only to the
\* requesting socket: one quick-summary-ready carrying the model's text or
\* the fixed fallback text.  A generate-summary run for the same key thus
\* reads and produces what it would without the request.
C18_QuickSummaryReadOnly ==
  [][\A k \in Keys :
       (Receives("get-quick-summary", k) \/ (quicks' # quicks /\ events' = events))
         => /\ meetings' = meetings
            /\ timers' = timers
            /\ jobs' = jobs
            /\ rooms' = rooms /\ connected' = connected
            /\ chunks' = chunks /\ mailLog' = mailLog /\ epoch' = epoch
            /\ \A i \in 1..Len(NewEmits) : NewEmits[i].kind = "socket"
            /\ \A id \in DOMAIN quicks \ DOMAIN quicks' :
                 /\ Len(NewEmits) = 1
                 /\ NewEmits[1].event = "quick-summary-ready"
                 /\ NewEmits[1].to = {quicks[id].socket} \cap connected
            /\ \A id \in DOMAIN quicks' \ DOMAIN quicks :
                 /\ NewEmits = <<>>
                 /\ has(meetings, k)
                 /\ quicks'[id].prompt.participants = Names(meetings[k].participants)]_vars

C18_Witness ==
  \E id \in DOMAIN jobs, g, q, r \in 1..Len(sent) :
    /\ jobs[id].pc = "done"
    /\ g < q /\ q < r
    /\ sent[g].event = "summary-generating"
    /\ sent[q].event = "quick-summary-ready" /\ sent[q].to = {Organizer}
    /\ sent[r].event = "summary-ready"
    /\ has(meetings, jobs[id].meetingId)
    /\ meetings[jobs[id].meetingId].endTime # NoTime

\* C19: handling a join-meeting event emits participant-joined to the
\* sockets that are in the meeting's room apart from the joining one, then
\* joined-meeting to the joining socket alone; afterwards the joining socket
\* is in the room and the session is stored.
C19_JoinFanout ==
  [][\A k \in Keys :
       Receives("join-meeting", k)
         => LET e == events'[Len(events')]
            IN  /\ Len(NewEmits) = 2
                /\ NewEmits[1].event = "participant-joined"
                /\ NewEmits[1].to = rooms[k] \ {e.socket}
                /\ NewEmits[1].body.userId = e.userId
                /\ NewEmits[2].event = "joined-meeting"
                /\ NewEmits[2].to = {e.socket}
                /\ rooms'[k] = rooms[k] \cup {e.socket}
                /\ has(meetings', k)]_vars

C19_Witness ==
  \E i \in 1..Len(sent) - 1 :
    /\ sent[i].event = "participant-joined"
    /\ sent[i].to = {"s1"}
    /\ sent[i + 1].event = "joined-meeting"
    /\ sent[i + 1].to = {"s2"}
    /\ \E k \in DOMAIN meetings : rooms[k] = {"s1", "s2"}

\* C20: a leave-meeting or disconnect event leaves every session as it is
\* (the participant log keeps the user who leaves, no session is created).
\* A leave takes the socket out of the meeting's room and emits
\* participant-left to the sockets that remain in it, whether or not the
\* user ever joined; a disconnect emits nothing.
C20_LeaveKeepsStore ==
  [][/\ \A k \in Keys :
          Receives("leave-meeting", k)
            => LET e == events'[Len(events')]
               IN  /\ meetings' = meetings
                   /\ rooms'[k] = rooms[k] \ {e.socket}
                   /\ Len(NewEmits) = 1
                   /\ NewEmits[1].event = "participant-left"
                   /\ NewEmits[1].to = rooms[k] \ {e.socket}
                   /\ NewEmits[1].body.userId = e.userId
     /\ Receives("disconnect", "")
          => /\ meetings' = meetings
             /\ NewEmits = <<>>
             /\ \A k \in Keys : rooms'[k] = rooms[k] \ {events'[Len(events')].socket}]_vars

C20_Witness ==
  \E k \in DOMAIN meetings :
    /\ Len(events) = 3
    /\ events[2].type = "leave-meeting" /\ events[2].socket = "s2"
    /\ events[3].type = "leave-meeting" /\ events[3].socket = "s1"
    /\ Names(meetings[k].participants) = <<"Ana">>
    /\ rooms[k] = {}
    /\ \E i \in 1..Len(sent) : /\ sent[i].event = "participant-left"
                               /\ sent[i].to = {"s1"}
                               /\ sent[i].body.userId = "u2"

\* The socket has joined k's room and has not left it or disconnected since.
InRoom(c, k) ==
  \E i \in 1..Len(events) :
    /\ events[i].type = "join-meeting" /\ events[i].socket = c /\ events[i].meetingId = k
    /\ \A j \in (i + 1)..Len(events) :
         ~(/\ events[j].socket = c
           /\ \/ events[j].type = "leave-meeting" /\ events[j].meetingId = k
              \/ events[j].type = "disconnect")

Receipts(c, ev) ==
  Cardinality({i \in 1..Len(NewEmits) : NewEmits[i].event = ev /\ c \in NewEmits[i].to})

\* C22: when the handler of a generate-summary trigger gets to announce its
\* summary, the triggering socket (while its connection is open) receives
\* summary-ready twice if it is in the meeting's room and once if it is not;
\* a socket that has disconnected receives nothing.
C22_TriggerGetsSummary ==
  [][\A id \in DOMAIN jobs :
       Settles(id, "emailing", "done")
         => LET c == jobs[id].socket
                n == Receipts(c, "summary-ready")
            IN  /\ (c \in connected /\ InRoom(c, jobs[id].meetingId)) => n = 2
                /\ (c \in connected /\ ~InRoom(c, jobs[id].meetingId)) => n = 1
                /\ c \notin connected => n = 0]_vars

C22_Witness ==
  \E i \in 1..Len(sent) - 1, id \in DOMAIN jobs :
    /\ jobs[id].pc = "done" /\ jobs[id].socket = "s1"
    /\ ~InRoom("s1", jobs[id].meetingId)
    /\ sent[i].event = "summary-ready" /\ sent[i].kind = "room" /\ sent[i].to = {"s2"}
    /\ sent[i + 1].event = "summary-ready" /\ sent[i + 1].kind = "socket"
    /\ sent[i + 1].to = {"s1"}

\* C23: initMeeting is idempotent.  On a key that is not stored it creates a
\* session with empty logs, the current time as startTime and no endTime, and
\* leaves the other sessions alone; on a stored key it changes nothing,
\* ended or not; a second initMeeting changes nothing after the first.
C23_InitMeetingIdempotent ==
  \A k \in StoreKeys :
    LET once == initMeeting(meetings, k, arrival)
        twice == initMeeting(once, k, arrival + MsPerMinute)
    IN  /\ twice = once
        /\ has(meetings, k) => once = meetings
        /\ ~has(meetings, k) =>
             /\ DOMAIN once = DOMAIN meetings \cup {k}
             /\ \A j \in DOMAIN meetings : once[j] = meetings[j]
             /\ once[k].participants = <<>> /\ once[k].transcriptions = <<>>
             /\ once[k].chatMessages = <<>> /\ once[k].audioChunks = <<>>
             /\ once[k].startTime = arrival /\ once[k].endTime = NoTime

C23_Witness ==
  /\ reply.call = "initMeeting"
  /\ has(meetings, reply.meetingId)
  /\ meetings[reply.meetingId].endTime # NoTime
  /\ Len(meetings[reply.meetingId].participants) = 1
  /\ meetings[reply.meetingId].startTime < meetings[reply.meetingId].endTime

\* The direct call of the store that a step makes, if it makes one.
LastCall == events'[Len(events')]

AppendCalls == {"addParticipant", "addAudioChunk", "addTranscription", "addChatMessage"}

\* The log an add method appends to.
LogOf(m, call) ==
  CASE call = "addParticipant" -> m.participants
    [] call = "addAudioChunk" -> m.audioChunks
    [] call = "addTranscription" -> m.transcriptions
    [] call = "addChatMessage" -> m.chatMessages

\* C24: endMeeting on a key that is not stored is a silent no-op that leaves
\* the whole store unchanged.  Each of addParticipant, addAudioChunk,
\* addTranscription and addChatMessage on a key that is not stored first
\* creates the session (started now, not ended) and then appends: afterwards
\* its own log holds exactly the one new entry, the other three logs are
\* empty, and the other sessions are untouched.
C24_UnknownKey ==
  [][\A k \in StoreKeys :
       (Len(events') = Len(events) + 1 /\ LastCall.meetingId = k /\ ~has(meetings, k))
         => /\ LastCall.type = "endMeeting" => meetings' = meetings
            /\ LastCall.type \in AppendCalls =>
                 /\ DOMAIN meetings' = DOMAIN meetings \cup {k}
                 /\ \A j \in DOMAIN meetings : meetings'[j] = meetings[j]
                 /\ meetings'[k].startTime = arrival
                 /\ meetings'[k].endTime = NoTime
                 /\ Len(LogOf(meetings'[k], LastCall.type)) = 1
                 /\ \A other \in AppendCalls \ {LastCall.type} :
                      LogOf(meetings'[k], other) = <<>>]_vars

C24_Witness ==
  /\ Len(events) = 2
  /\ events[1].type = "addAudioChunk" /\ events[1].meetingId = "m1"
  /\ events[2].type = "endMeeting" /\ events[2].meetingId = "m2"
  /\ DOMAIN meetings = {"m1"}
  /\ Len(meetings["m1"].audioChunks) = 1
  /\ meetings["m1"].endTime = NoTime

\* C25: clearMeeting returns true exactly when a session was stored under
\* the key.  Afterwards no session exists for it: getMeetingData returns
\* nothing, getMeetingStats returns null and the key is absent from
\* getAllMeetings; the other sessions are untouched, and a clearMeeting
\* repeated at once returns false.
C25_ClearMeeting ==
  [][\A k \in StoreKeys :
       (Len(events') = Len(events) + 1 /\ LastCall.type = "clearMeeting"
        /\ LastCall.meetingId = k)
         => /\ reply'.value = has(meetings, k)
            /\ getMeetingData(meetings', k) = <<>>
            /\ getMeetingStats(meetings', k) = <<>>
            /\ \A m \in getAllMeetings(meetings') : m.meetingId # k
            /\ \A j \in StoreKeys \ {k} :
                 getMeetingData(meetings', j) = getMeetingData(meetings, j)
            /\ clearMeetingReturns(meetings', k) = FALSE
            /\ clearMeeting(meetings', k) = meetings']_vars

\* A stored session with an entry was removed while another one was stored.
C25_Witness ==
  /\ Len(events) = 3
  /\ events[1].type = "addChatMessage" /\ events[1].meetingId = "m1"
  /\ events[2].type = "addParticipant" /\ events[2].meetingId = "m2"
  /\ reply = Returned("clearMeeting", "m1", TRUE)
  /\ DOMAIN meetings = {"m2"}

StatsRoute == "GET /api/meetings/:meetingId/stats"

\* C26: for a stored session getMeetingStats returns the participant,
\* transcript, chat and audio counts equal to the current lengths of the
\* logs, and a duration that is null exactly while the session has no
\* endTime and endTime minus startTime otherwise; for a key that is not
\* stored it returns null.  The stats route answers with the same object,
\* or with 404 for a key that is not stored.
C26_Stats ==
  /\ \A k \in StoreKeys :
       LET stats == getMeetingStats(meetings, k)
       IN  IF ~has(meetings, k) THEN stats = <<>>
           ELSE /\ Len(stats) = 1
                /\ stats[1].meetingId = k
                /\ stats[1].participantCount = Len(meetings[k].participants)
                /\ stats[1].transcriptionCount = Len(meetings[k].transcriptions)
                /\ stats[1].chatMessageCount = Len(meetings[k].chatMessages)
                /\ stats[1].audioChunkCount = Len(meetings[k].audioChunks)
                /\ stats[1].duration = <<>> <=> meetings[k].endTime = NoTime
                /\ meetings[k].endTime # NoTime =>
                     stats[1].duration = <<meetings[k].endTime - meetings[k].startTime>>
  /\ reply.call = StatsRoute =>
       IF has(meetings, reply.meetingId)
       THEN /\ reply.status = 200
            /\ reply.body.stats.participantCount = Len(meetings[reply.meetingId].participants)
            /\ reply.body.stats.audioChunkCount = Len(meetings[reply.meetingId].audioChunks)
            /\ reply.body.stats.duration = <<>> <=> meetings[reply.meetingId].endTime = NoTime
       ELSE reply.status = 404 /\ reply.body = NotFound

\* The stats of an ended session with one participant were requested.
C26_Witness ==
  /\ reply.call = StatsRoute /\ reply.status = 200
  /\ reply.body.stats.participantCount = 1
  /\ reply.body.stats.chatMessageCount = 0
  /\ reply.body.stats.duration = <<MsPerMinute>>
  /\ meetings[reply.meetingId].endTime # NoTime

Routes == {"GET /api/meetings", "GET /api/meetings/:meetingId", StatsRoute}

\* C27: the three GET routes never change the store: they create no session
\* for a key that is not stored (they answer 404 "Meeting not found"),
\* change no log and no timestamp, and emit nothing to any connection.
C27_QueriesReadOnly ==
  [][(Len(events') = Len(events) + 1 /\ LastCall.type \in Routes)
       => /\ meetings' = meetings
          /\ sent' = sent
          /\ UNCHANGED <<rooms, connected, chunks, jobs, quicks, timers, epoch>>
          /\ (LastCall.type # "GET /api/meetings" /\ ~has(meetings, LastCall.meetingId))
               => /\ reply'.status = 404 /\ reply'.body = NotFound
                  /\ ~has(meetings', LastCall.meetingId)
          /\ (LastCall.type # "GET /api/meetings" /\ has(meetings, LastCall.meetingId))
               => reply'.status = 200 /\ reply'.body.success
          /\ LastCall.type = "GET /api/meetings"
               => /\ reply'.status = 200
                  /\ reply'.body.count = Cardinality(DOMAIN meetings)
                  /\ {m.meetingId : m \in reply'.body.meetings} = DOMAIN meetings]_vars

\* A session that is not stored was asked for while another one was stored.
C27_Witness ==
  /\ reply = Response("GET /api/meetings/:meetingId", "m2", 404, NotFound)
  /\ DOMAIN meetings = {"m1"}
  /\ Len(meetings["m1"].transcriptions) = 1

\* The logs of the session stored under k, empty when none is stored.
LogsOf(ms, k) ==
  IF has(ms, k)
  THEN [call \in AppendCalls |-> LogOf(ms[k], call)]
  ELSE [call \in AppendCalls |-> <<>>]

\* C28: handling a chat-message event ensures the session exists, appends
\* exactly one chat entry with the sender's id, name, text and the client's
\* timestamp and changes no other log, and emits chat-message-received to
\* the originating connection only: nothing goes to the other members.
C28_ChatMessage ==
  [][(Len(events') = Len(events) + 1 /\ LastCall.type = "chat-message")
       => LET k == LastCall.meetingId
              before == LogsOf(meetings, k)
              after == LogsOf(meetings', k)
          IN  /\ has(meetings', k)
              /\ after["addChatMessage"] =
                   Append(before["addChatMessage"],
                          [userId |-> LastCall.userId,
                           userName |-> userNameOf(LastCall.userId),
                           message |-> Len(events'),
                           timestamp |-> LastCall.timestamp])
              /\ \A call \in AppendCalls \ {"addChatMessage"} : after[call] = before[call]
              /\ has(meetings, k) =>
                   /\ meetings'[k].startTime = meetings[k].startTime
                   /\ meetings'[k].endTime = meetings[k].endTime
              /\ Len(NewEmits) = 1
              /\ NewEmits[1].event = "chat-message-received"
              /\ NewEmits[1].kind = "socket"
              /\ NewEmits[1].to = {LastCall.socket}
              /\ NewEmits[1].body = [success |-> TRUE, timestamp |-> LastCall.timestamp]
              /\ rooms' = rooms]_vars

\* A member wrote to the chat of a meeting with another member in the room.
C28_Witness ==
  /\ Len(events) = 3 /\ events[3].type = "chat-message" /\ events[3].socket = "s1"
  /\ rooms["m1"] = {"s1", "s2"}
  /\ sent[Len(sent)].event = "chat-message-received"
  /\ sent[Len(sent)].to = {"s1"}
  /\ Len(meetings["m1"].chatMessages) = 1
  /\ meetings["m1"].chatMessages[1].timestamp = clientTime(3)

\* The audio buffers recorded in a session, and the buffers its transcript
\* entries were made from (Whisper's text names its buffer).
AudioRecorded(m) == {m.audioChunks[i].data : i \in 1..Len(m.audioChunks)}

Transcribed(m) == {m.transcriptions[i].text[2] : i \in 1..Len(m.transcriptions)}

\* The audio-chunk handler runs of the session now stored under k: those
\* that began since the key was last cleared, whatever became of them.
Started(k) == {id \in DOMAIN chunks : chunks[id].meetingId = k /\ id > epoch[k]}

\* C29: the raw audio record of an audio event is in the session (created
\* if absent) before its transcription is invoked and stays there whatever
\* the outcome: in every state every chunk whose transcription has been
\* started for a session or has finished into it has its audio record in
\* that session, so their number never exceeds the number of audio records.
C29_AudioRecordedFirst ==
  \A k \in Keys :
    /\ ~has(meetings, k) => Started(k) = {}
    /\ has(meetings, k) =>
         /\ Started(k) \cup Transcribed(meetings[k]) \subseteq AudioRecorded(meetings[k])
         /\ Cardinality(Started(k) \cup Transcribed(meetings[k]))
              <= Len(meetings[k].audioChunks)

\* The texts broadcast as live-transcription for k, in the order of emission.
RECURSIVE LiveTexts(_, _)
LiveTexts(s, k) ==
  IF s = <<>> THEN <<>>
  ELSE LET r == LiveTexts(SubSeq(s, 1, Len(s) - 1), k)
           e == s[Len(s)]
       IN  IF e.event = "live-transcription" /\ e.meetingId = k
           THEN Append(r, e.body.text) ELSE r

IsSuffix(a, b) == Len(a) <= Len(b) /\ SubSeq(b, Len(b) - Len(a) + 1, Len(b)) = a

\* C30: the transcript log of a session and the live-transcription
\* broadcasts of its meeting are in the same order, the order in which the
\* transcriptions completed (each completion appends and broadcasts at
\* once): the log is the tail of the sequence of broadcasts, whichever chunk
\* was submitted first, and each entry and each broadcast carries the
\* capture timestamp of its own chunk.
C30_CompletionOrder ==
  \A k \in DOMAIN meetings :
    LET log == meetings[k].transcriptions
    IN  /\ IsSuffix([i \in 1..Len(log) |-> log[i].text], LiveTexts(sent, k))
        /\ \A i \in 1..Len(log) :
             /\ log[i].text[2] \in DOMAIN chunks
             /\ chunks[log[i].text[2]].status = "ok"
             /\ log[i].timestamp = chunks[log[i].text[2]].timestamp
        /\ \A i \in 1..Len(sent) :
             (sent[i].event = "live-transcription" /\ sent[i].meetingId = k)
               => sent[i].body.timestamp = chunks[sent[i].body.text[2]].timestamp

\* Two chunks from different connections were in flight and the one
\* submitted later completed first.
C30_Witness ==
  /\ Len(events) = 3
  /\ events[2].type = "audio-chunk" /\ events[2].socket = "s1"
  /\ events[3].type = "audio-chunk" /\ events[3].socket = "s2"
  /\ has(meetings, "m1")
  /\ Len(meetings["m1"].transcriptions) = 2
  /\ meetings["m1"].transcriptions[1].text = Whisper(3)
  /\ meetings["m1"].transcriptions[1].timestamp = clientTime(3)
  /\ meetings["m1"].transcriptions[2].text = Whisper(2)
  /\ meetings["m1"].transcriptions[2].timestamp = clientTime(2)
  /\ LiveTexts(sent, "m1") = <<Whisper(3), Whisper(2)>>
  /\ \A i \in 1..Len(sent) : sent[i].event = "live-transcription" => sent[i].to = {"s1"}

\* The texts of a transcript log or of the transcript lines of a prompt.
Texts(log) == [i \in 1..Len(log) |-> log[i].text]

\* The handler runs of generate-summary that a step starts, and the chunks
\* whose transcription a step completes.
Begun == DOMAIN jobs' \ DOMAIN jobs

Completed == {id \in DOMAIN chunks : chunks[id].status = "pending" /\ chunks'[id].status = "ok"}

\* C31: the input given to the summarizer holds the transcriptions that
\* completed before the trigger was handled, and only those.  A
\* transcription that completes afterwards is stored and broadcast but
\* causes no error, starts no summarizer call, leaves every prompt as it
\* was, and the summary is the one the model's answer gives without it.
C31_LateTranscription ==
  [][/\ \A id \in Begun :
          Texts(jobs'[id].prompt.transcriptions) = Texts(meetings[jobs'[id].meetingId].transcriptions)
     /\ Completed # {} =>
          /\ jobs' = jobs
          /\ \A i \in 1..Len(NewEmits) : NewEmits[i].event = "live-transcription"
     /\ \A id \in DOMAIN jobs :
          Settles(id, "summarizing", "emailing") =>
            LET data == Deref(jobs[id])
                taken == Len(jobs[id].prompt.transcriptions)
                early == [data EXCEPT !.transcriptions =
                            SubSeq(@, 1, IF taken < Len(@) THEN taken ELSE Len(@))]
            IN  \E r \in Responses :
                  /\ jobs'[id].summary = <<parseClaudeResponse(r, data)>>
                  /\ parseClaudeResponse(r, data) = parseClaudeResponse(r, early)]_vars

\* One chunk completed before the trigger and one after it, and the summary
\* was sent.
C31_Witness ==
  \E id \in DOMAIN jobs :
    /\ jobs[id].pc = "done"
    /\ Texts(jobs[id].prompt.transcriptions) = <<Whisper(1)>>
    /\ has(meetings, jobs[id].meetingId)
    /\ Texts(meetings[jobs[id].meetingId].transcriptions) = <<Whisper(1), Whisper(2)>>
    /\ chunks[2].status = "ok"

\* C32: the summary of a trigger is computed from the session as it was when
\* the trigger was handled, the state its prompt was built from: it reports
\* the duration up to that trigger's endTime, and a fallback summary lists
\* the participants of that moment, whatever was handled while the
\* summarizer call was in flight.
C32_SummaryFromSnapshot ==
  \A id \in DOMAIN jobs :
    jobs[id].summary # <<>> =>
      /\ jobs[id].summary[1].meetingDuration = jobs[id].prompt.duration
      /\ IsFallback(jobs[id].summary[1]) =>
           Names(jobs[id].summary[1].participants) = jobs[id].prompt.participantsList

\* Answers of the model that JSON.parse rejects, by their length in
\* characters: empty, shorter than the limit, at it and beyond it.
RawLengths == {0, 499, 500, 501, 600}

RawTexts == {[json |-> FALSE, len |-> n, parsed |-> <<>>] : n \in RawLengths}

\* What the fallback summaries have in common whatever the topic list is: an
\* entry per participant of the session, in the order of the participant
\* log, with the participant's name and the generic note; no task; a
\* narrative made of at most the first 500 characters of the text.
FallbackCore(s, raw, data) ==
  /\ Len(s.participants) = Len(data.participants)
  /\ \A i \in 1..Len(s.participants) :
       s.participants[i] = [name |-> data.participants[i].name,
                            contributions |-> "Participo en la reunion"]
  /\ s.tasks = <<>>
  /\ s.summary[1] = "raw"
  /\ s.summary[2] - EllipsisLen <= SubstringLimit
  /\ s.summary[2] - EllipsisLen <= raw.len

\* C33 (as claimed): the fallback summary has an entry per participant, an
\* empty task list, an empty topic list and a truncated excerpt of the text
\* as its narrative.
C33_FallbackEmptyTopics ==
  \A k \in DOMAIN meetings : \A raw \in RawTexts :
    LET s == parseClaudeResponse(raw, meetings[k])
    IN  FallbackCore(s, raw, meetings[k]) /\ s.topics = <<>>

\* C33 (amended): the fallback summary has an entry per participant and an
\* empty task list, but its topic list and its next-steps list each hold one
\* fixed generic entry, and its narrative is the first 500 characters of the
\* text (the whole text when shorter) followed by "...".
C33_FallbackShape ==
  /\ \A k \in DOMAIN meetings : \A raw \in RawTexts :
       LET s == parseClaudeResponse(raw, meetings[k])
       IN  /\ FallbackCore(s, raw, meetings[k])
           /\ s.topics = <<"Informacion de la reunion procesada">>
           /\ s.nextSteps = <<"Revisar el contenido de la reunion">>
           /\ s.summary[2] = (IF raw.len < SubstringLimit THEN raw.len ELSE SubstringLimit)
                               + EllipsisLen
           /\ s.meetingDuration = calculateDuration(meetings[k].startTime, meetings[k].endTime)
  /\ \A id \in DOMAIN jobs :
       (jobs[id].summary # <<>> /\ IsFallback(jobs[id].summary[1])) =>
         /\ jobs[id].summary[1].topics = <<"Informacion de la reunion procesada">>
         /\ jobs[id].summary[1].tasks = <<>>
         /\ jobs[id].summary[1].summary[2] = SubstringLimit + EllipsisLen

\* A fallback summary for a session of two participants was sent.
C33_Witness ==
  \E id \in DOMAIN jobs : \E i \in 1..Len(sent) :
    /\ sent[i].event = "summary-ready" /\ sent[i].kind = "room"
    /\ sent[i].body.summary = jobs[id].summary[1]
    /\ IsFallback(sent[i].body.summary)
    /\ Names(sent[i].body.summary.participants) = <<"Ana", "Luis">>
    /\ sent[i].body.summary.tasks = <<>>
    /\ Len(sent[i].body.summary.topics) = 1

\* C34: in every state every stored session has at most as many transcript
\* entries as raw audio records, each transcript entry being that of an
\* audio chunk recorded in the same session; a transcription that completes
\* after its session was cleared creates no session with a transcript entry
\* that lacks its audio record.
C34_TranscriptsWithinAudio ==
  \A k \in DOMAIN meetings :
    /\ Len(meetings[k].transcriptions) <= Len(meetings[k].audioChunks)
    /\ \A i \in 1..Len(meetings[k].transcriptions) :
         \E j \in 1..Len(meetings[k].audioChunks) :
           /\ meetings[k].audioChunks[j].data = meetings[k].transcriptions[i].text[2]
           /\ meetings[k].audioChunks[j].timestamp = meetings[k].transcriptions[i].timestamp

\* The session stored under k, nothing when none is.
SessionOf(ms, k) == getMeetingData(ms, k)

\* The keys a step is addressed to: the key named by the event it handles,
\* or the key of the chunk, handler run or timer whose continuation it is.
StepKeys ==
  IF Len(events') > Len(events)
  THEN {LastCall.meetingId}
  ELSE {chunks[id].meetingId : id \in {x \in DOMAIN chunks : chunks'[x] # chunks[x]}}
       \cup {jobs[id].meetingId : id \in {x \in DOMAIN jobs : jobs'[x].pc # jobs[x].pc}}
       \cup {quicks[id].meetingId : id \in DOMAIN quicks \ DOMAIN quicks'}
       \cup {tm.meetingId : tm \in timers \ timers'}

\* The stores that the store methods leave when called for key k on store ms.
StoreCallsOn(ms, k) ==
  LET p == [id |-> "u2", name |-> userNameOf("u2"), email |-> userEmailOf("u2")]
      e == [userId |-> "u2", userName |-> userNameOf("u2"), text |-> Whisper(0),
            timestamp |-> clientTime(0)]
  IN  { initMeeting(ms, k, arrival), addParticipant(ms, k, p, arrival),
        addAudioChunk(ms, k, e, arrival), addTranscription(ms, k, e, arrival),
        addChatMessage(ms, k, e, arrival), endMeeting(ms, k, arrival),
        clearMeeting(ms, k) }

\* C35: a socket event (with its continuations) addressed to key k, and
\* each store method called for key k on a store the handlers have made,
\* leave the session of every other key as it was, stored or not, logs and
\* both timestamps; every emit of the step names k, and what is sent to a
\* room goes to members of k's room.
C35_OtherKeysUntouched ==
  [][/\ meetings' # meetings =>
          \A k \in StoreKeys : \A j \in StoreKeys \ {k} : \A ms \in StoreCallsOn(meetings', k) :
            SessionOf(ms, j) = SessionOf(meetings', j)
     /\ Cardinality(StepKeys) = 1
     /\ \A j \in StoreKeys \ StepKeys :
          /\ SessionOf(meetings', j) = SessionOf(meetings, j)
          /\ rooms'[j] = rooms[j]
     /\ \A i \in 1..Len(NewEmits) :
          /\ NewEmits[i].meetingId \in StepKeys
          /\ NewEmits[i].kind \in {"room", "others"} =>
               NewEmits[i].to \subseteq rooms'[NewEmits[i].meetingId]]_vars

\* Both meetings are stored with members of their own; m1 was ended and its
\* summary sent to its room while m2 went on untouched.
C35_Witness ==
  /\ DOMAIN meetings = {"m1", "m2"}
  /\ rooms["m1"] = {"s1"} /\ rooms["m2"] = {"s2"}
  /\ meetings["m1"].endTime # NoTime
  /\ meetings["m2"].endTime = NoTime
  /\ Len(meetings["m2"].participants) = 1
  /\ \E i \in 1..Len(sent) :
       sent[i].event = "summary-ready" /\ sent[i].kind = "room" /\ sent[i].to = {"s1"}

\* C36: a generate-summary trigger on a stored session is answered to the
\* triggering socket by summary-generating, sent to that socket only, and
\* then, the summarizer and email calls settling, by exactly one kind of
\* outcome: summary-ready (to the room and to the socket) or summary-error,
\* never both, never neither.  For a key that is not stored no
\* summary-generating is sent, only summary-error.
C36_OneOutcome ==
  /\ [][/\ \A id \in Begun :
             /\ has(meetings, jobs'[id].meetingId)
             /\ NewEmits = <<Emit("summary-generating", "socket", jobs'[id].meetingId,
                                  {jobs'[id].socket},
                                  [message |-> "Generando resumen con IA..."])>>
        /\ (Len(events') > Len(events) /\ LastCall.type = "generate-summary" /\ Begun = {}) =>
             /\ ~has(meetings, LastCall.meetingId)
             /\ Len(NewEmits) = 1
             /\ NewEmits[1].event = "summary-error" /\ NewEmits[1].to = {LastCall.socket}
        /\ \A id \in DOMAIN jobs :
             /\ jobs[id].pc \in {"done", "error"} => jobs'[id] = jobs[id]
             /\ Settles(id, "summarizing", "emailing") => sent' = sent
             /\ Settles(id, "summarizing", "error") =>
                  /\ Len(NewEmits) = 1
                  /\ NewEmits[1].event = "summary-error" /\ NewEmits[1].kind = "socket"
                  /\ NewEmits[1].to = {jobs[id].socket}
             /\ Settles(id, "emailing", "done") =>
                  /\ \A i \in 1..Len(NewEmits) : NewEmits[i].event = "summary-ready"
                  /\ \E i \in 1..Len(NewEmits) :
                       NewEmits[i].kind = "socket" /\ NewEmits[i].to = {jobs[id].socket}
             /\ jobs'[id].pc # jobs[id].pc =>
                  \/ Settles(id, "summarizing", "emailing")
                  \/ Settles(id, "summarizing", "error")
                  \/ Settles(id, "emailing", "done")]_vars
  /\ \A id \in 1..MaxEvents :
       (id \in DOMAIN jobs /\ jobs[id].pc = "summarizing")
         ~> (id \in DOMAIN jobs /\ jobs[id].pc \in {"done", "error"})

\* One trigger of the organizer was answered by summary-error and the next
\* one by summary-ready.
C36_Witness ==
  \E a, b \in DOMAIN jobs :
    /\ a < b /\ jobs[a].pc = "error" /\ jobs[b].pc = "done"
    /\ \E i, j \in 1..Len(sent) :
         /\ i < j
         /\ sent[i].event = "summary-error" /\ sent[i].to = {"s1"}
         /\ sent[j].event = "summary-ready" /\ sent[j].kind = "socket" /\ sent[j].to = {"s1"}
    /\ Cardinality({i \in 1..Len(sent) : sent[i].event = "summary-generating"}) = 2

\* C37: a summary-ready event says emailSent only when sendSummaryEmail
\* delivered the summary of its trigger; after a failed delivery no
\* summary-ready event reports emailSent as true.
C37_EmailSentTruthful ==
  [][\A id \in DOMAIN jobs :
       Settles(id, "emailing", "done") =>
         \A i \in 1..Len(NewEmits) :
           (NewEmits[i].event = "summary-ready" /\ NewEmits[i].body.emailSent)
             => mailLog' = "sent"]_vars

\* The calls of transcribe that have not settled.
InFlight == {id \in DOMAIN tmp.calls : tmp.calls[id].pc \in {"written", "uploading"}}

\* C38: overlapping calls of transcribe never interfere through the
\* temporary file: each call submits exactly the bytes it was given, and
\* while a call is in flight its file is there and holds its own bytes,
\* neither deleted nor overwritten by another call, also when two calls
\* start within the same millisecond.
C38_NoTempFileInterference ==
  \A id \in DOMAIN tmp.calls :
    LET call == tmp.calls[id]
    IN  /\ call.pc # "written" => call.submitted = <<call.audioBuffer>>
        /\ id \in InFlight =>
             /\ has(tmp.files, call.tempFilePath)
             /\ tmp.files[call.tempFilePath] = call.audioBuffer

====
